---- MODULE Spec2Model ----
(***************************************************************************)
(* A model of the "potion" engine core of kennedy0/ld-57: the EntityList   *)
(* deferred-mutation lifecycle (src/src/potion/entity_list.py) and the     *)
(* Entity movement / collision bookkeeping (src/src/potion/entity.py).     *)
(*                                                                         *)
(* The EntityList object is the record variable el, whose fields keep the  *)
(* names of the Python attributes without the leading underscore; the      *)
(* Entity objects are the function ent from entity identities to records.  *)
(* Python lists are sequences, dicts are functions on their key set, sets  *)
(* are sets.  A handler that can raise is a function on a "world" record   *)
(* [el, ent, raised]: once raised is TRUE the rest of the handler is       *)
(* skipped and the engine loop stops (engine.py has no recovery).          *)
(***************************************************************************)
EXTENDS Integers, Sequences, FiniteSets, TLC

\* ---------------------------------------------------------------- bounds
NumEntities == 2
MaxFrames == 2
MaxOps == 3

Entities == 1..NumEntities
Names == {"a", "b"}

VARIABLES
    el,        \* the EntityList object
    ent,       \* the Entity objects
    pc,        \* where the engine is in its loop
    idx,       \* the position of the running Python for-loop
    inLoad,    \* TRUE while Scene.on_load runs (its update_list call)
    frame,     \* Scene._frame
    nops,      \* number of list operations issued by callbacks so far
    cnt,       \* history: per entity, how often each lifecycle callback ran
    log,       \* history: the callbacks of the current update_list pass, in order
    updated,   \* history: entities whose update() ran in the current update pass
    drawn,     \* history: entities drawn by the last draw pass, in order
    fresh,     \* history: entities new to the scene passed to add() by an update() of this pass
    requested, \* history: the entities of fresh that the last update pass left queued in _to_add
    lastOp,    \* history: the list operation issued by the callback of the last step
    deferred,  \* history: the requests of the last pass that its resubmission queued
    paused,    \* Scene._paused
    events,    \* history: the collision callbacks of the current frame, in order
    touched,   \* history: the pairs <<a, b>> for which a got begin or stay last frame
    contact,   \* history: those of them that ended last frame overlapping or pressed
    pressed,   \* history: the pairs a move of this frame stopped against each other
    quiet,     \* history: nothing moved or changed in the scene in the current frame
    lastMove,  \* history: the last move_x / move_y call and where it started
    mv,        \* history: a run of move_x / move_y calls (where it began, what it added up)
    prevDraw,  \* history: the draw list as it was when the last update_list began
    eng,       \* the Engine class: _scene, _next_scene, _frame (0 is None)
    sc,        \* the Scene objects: each with its EntityList, its entities and _frame
    cameras,   \* Scene.cameras: the CameraList of a scene
    cam,       \* the Camera objects: name, draw_order, scene
    camOp,     \* history: the last call on the camera list and how it ended
    co,        \* the coroutine driver: the module lists _coroutines and _stop
    gen,       \* the generator objects: their state and what they do when resumed
    coHist,    \* history: resumes of the running pass, coroutines stopped, errors raised
    rc,        \* one Camera with its render targets, the Window viewport and the last copy
    ms,        \* the Mouse and the entities it hovers over, with the callbacks of a frame
    lv,        \* the Level objects of a scene and the level of each entity
    rq         \* history: the active requests the last update_list applied, and those since

\* the variables of the specifications that follow the first two
camVars == <<cameras, cam, camOp>>
coVars == <<co, gen, coHist>>
auxVars == <<rc, ms, lv, rq>>
extVars == <<mv, prevDraw, eng, sc, camVars, coVars, auxVars>>

collVars == <<paused, events, touched, contact, pressed, quiet, lastMove, extVars>>

vars == <<el, ent, pc, idx, inLoad, frame, nops, cnt, log, updated, drawn, fresh, requested,
          lastOp, deferred, collVars>>

\* ------------------------------------------------------- Python list helpers
Range(s) == {s[i] : i \in 1..Len(s)}

SeqHas(s, x) == \E i \in 1..Len(s) : s[i] = x

Count(s, x) == Cardinality({i \in 1..Len(s) : s[i] = x})

IndexOf(s, x) == CHOOSE i \in 1..Len(s) : s[i] = x /\ \A j \in 1..(i - 1) : s[j] # x

\* list.remove(x): drops the first occurrence
ListRemove(s, x) ==
    LET i == IndexOf(s, x)
    IN  SubSeq(s, 1, i - 1) \o SubSeq(s, i + 1, Len(s))

\* dict.pop(k) and dict[k] = v
DictPop(m, k) == [n \in (DOMAIN m) \ {k} |-> m[n]]

DictSet(m, k, v) == [n \in (DOMAIN m) \cup {k} |-> IF n = k THEN v ELSE m[n]]

EmptyDict == [n \in {} |-> 0]

\* ------------------------------------------------------------ construction
\* Entity.__init__; the name is given by the caller
NewEntity(n) ==
    [ name |-> n, active |-> TRUE, pausable |-> TRUE, scene |-> FALSE, started |-> FALSE,
      x |-> 0, y |-> 0, xr |-> 0, yr |-> 0, z |-> 0,
      collisions_enabled |-> FALSE, solid |-> FALSE, width |-> 0, height |-> 0,
      collisions_this_frame |-> {}, collisions_last_frame |-> {} ]

\* EntityList.__init__
NewEntityList ==
    [ is_updating |-> FALSE,
      added_while_updating |-> <<>>,
      removed_while_updating |-> <<>>,
      entity_list |-> <<>>,
      entity_map |-> EmptyDict,
      entity_draw_list |-> <<>>,
      entity_draw_list_needs_sorting |-> FALSE,
      to_add |-> <<>>,
      to_remove |-> <<>>,
      name_to_add |-> {},
      to_activate |-> <<>>,
      to_deactivate |-> <<>> ]

World(l, n) == [el |-> l, ent |-> n, raised |-> FALSE]

\* ------------------------------------------------------ EntityList methods
flag_entity_draw_list_needs_sorting(L) ==
    [L EXCEPT !.entity_draw_list_needs_sorting = TRUE]

\* add() without the "mid-update" side list: the request goes straight to the queue
add_unbuffered(W, e) ==
    IF W.ent[e].name \in W.el.name_to_add
    THEN W
    ELSE IF ~SeqHas(W.el.entity_list, e) /\ ~SeqHas(W.el.to_add, e)
    THEN [W EXCEPT !.el = flag_entity_draw_list_needs_sorting(
                              [@ EXCEPT !.to_add = Append(@, e),
                                        !.name_to_add = @ \cup {W.ent[e].name}])]
    ELSE W

\* add() that puts the entity on the live list at once instead of queueing it
add_immediate(W, e) ==
    IF W.el.is_updating
    THEN [W EXCEPT !.el.added_while_updating = Append(@, e)]
    ELSE IF W.ent[e].name \in W.el.name_to_add
    THEN W
    ELSE IF ~SeqHas(W.el.entity_list, e) /\ ~SeqHas(W.el.to_add, e)
    THEN [W EXCEPT !.el = flag_entity_draw_list_needs_sorting(
                              [@ EXCEPT !.entity_list = Append(@, e),
                                        !.entity_draw_list = Append(@, e),
                                        !.entity_map = DictSet(@, W.ent[e].name, e)]),
                   !.ent[e].scene = TRUE]
    ELSE W

add(W, e) ==
    IF W.el.is_updating
    THEN [W EXCEPT !.el.added_while_updating = Append(@, e)]
    ELSE IF W.ent[e].name \in W.el.name_to_add
    THEN W
    ELSE IF ~SeqHas(W.el.entity_list, e) /\ ~SeqHas(W.el.to_add, e)
    THEN [W EXCEPT !.el = flag_entity_draw_list_needs_sorting(
                              [@ EXCEPT !.to_add = Append(@, e),
                                        !.name_to_add = @ \cup {W.ent[e].name}])]
    ELSE W

remove(W, e) ==
    IF W.el.is_updating
    THEN [W EXCEPT !.el.removed_while_updating = Append(@, e)]
    ELSE IF SeqHas(W.el.entity_list, e) /\ ~SeqHas(W.el.to_remove, e)
    THEN [W EXCEPT !.el.to_remove = Append(@, e)]
    ELSE W

\* set_active without its lines 87-88: the entity stays on the deactivate queue
set_active_keep(L, e) ==
    [L EXCEPT !.to_activate = IF ~SeqHas(@, e) THEN Append(@, e) ELSE @]

set_active(L, e) ==
    LET d == IF SeqHas(L.to_deactivate, e) THEN ListRemove(L.to_deactivate, e)
             ELSE L.to_deactivate
        a == IF ~SeqHas(L.to_activate, e) THEN Append(L.to_activate, e)
             ELSE L.to_activate
    IN  [L EXCEPT !.to_deactivate = d, !.to_activate = a]

set_inactive(L, e) ==
    LET a == IF SeqHas(L.to_activate, e) THEN ListRemove(L.to_activate, e)
             ELSE L.to_activate
        d == IF ~SeqHas(L.to_deactivate, e) THEN Append(L.to_deactivate, e)
             ELSE L.to_deactivate
    IN  [L EXCEPT !.to_activate = a, !.to_deactivate = d]

\* ---------------------------------------------------------- Entity methods
\* the active setter: a request, ignored while the entity has no scene
active_setter(W, e, value) ==
    IF W.ent[e].scene
    THEN IF value THEN [W EXCEPT !.el = set_active(@, e)]
         ELSE [W EXCEPT !.el = set_inactive(@, e)]
    ELSE W

\* the z setter: a new value flags the draw list of the entity's scene
z_setter(W, e, value) ==
    IF value # W.ent[e].z
    THEN [W EXCEPT !.el = IF W.ent[e].scene THEN flag_entity_draw_list_needs_sorting(@) ELSE @,
                   !.ent[e].z = value]
    ELSE W

\* destroy(): self.scene.entities.remove(self); AttributeError without a scene
destroy(W, e) ==
    IF W.ent[e].scene THEN remove(W, e) ELSE [W EXCEPT !.raised = TRUE]

\* ------------------------------------------------- EntityList.update_list
\* lines 131-136: promote the queued entities, from position i on
RECURSIVE AddQueued(_, _)
AddQueued(W, i) ==
    IF i > Len(W.el.to_add) THEN W
    ELSE LET e == W.el.to_add[i]
             L1 == [W.el EXCEPT !.entity_list = Append(@, e),
                                !.entity_draw_list = Append(@, e),
                                !.entity_map = DictSet(@, W.ent[e].name, e)]
         IN  AddQueued([W EXCEPT !.el = set_active(L1, e), !.ent[e].scene = TRUE], i + 1)

\* lines 139-144: drop the entities queued for removal, from position i on;
\* list.remove raises ValueError and dict.pop raises KeyError on a missing item
RECURSIVE RemoveQueued(_, _)
RemoveQueued(W, i) ==
    IF W.raised \/ i > Len(W.el.to_remove) THEN W
    ELSE LET e == W.el.to_remove[i]
         IN  IF ~SeqHas(W.el.entity_list, e) THEN [W EXCEPT !.raised = TRUE]
             ELSE LET L1 == [W.el EXCEPT !.entity_list = ListRemove(@, e),
                                         !.entity_draw_list = Append(@, e)]
                  IN  IF W.ent[e].name \notin DOMAIN L1.entity_map
                      THEN [W EXCEPT !.el = L1, !.raised = TRUE]
                      ELSE RemoveQueued(
                               [W EXCEPT !.el = set_inactive(
                                             [L1 EXCEPT !.entity_map = DictPop(@, W.ent[e].name)], e),
                                         !.ent[e].scene = FALSE],
                               i + 1)

\* lines 189-192: list.sort(key=z, reverse=True), a stable sort
RECURSIVE InsertByZ(_, _, _)
InsertByZ(s, e, n) ==
    IF s = <<>> THEN <<e>>
    ELSE IF n[Head(s)].z >= n[e].z THEN <<Head(s)>> \o InsertByZ(Tail(s), e, n)
    ELSE <<e>> \o s

RECURSIVE SortedByZ(_, _)
SortedByZ(s, n) ==
    IF s = <<>> THEN <<>>
    ELSE InsertByZ(SortedByZ(SubSeq(s, 1, Len(s) - 1), n), s[Len(s)], n)

\* a sort by ascending z (stable): list.sort(key=z) without reverse
RECURSIVE InsertByZUp(_, _, _)
InsertByZUp(s, e, n) ==
    IF s = <<>> THEN <<e>>
    ELSE IF n[Head(s)].z <= n[e].z THEN <<Head(s)>> \o InsertByZUp(Tail(s), e, n)
    ELSE <<e>> \o s

RECURSIVE SortedByZUp(_, _)
SortedByZUp(s, n) ==
    IF s = <<>> THEN <<>>
    ELSE InsertByZUp(SortedByZUp(SubSeq(s, 1, Len(s) - 1), n), s[Len(s)], n)

sort_draw_list_ascending(L, n) ==
    [L EXCEPT !.entity_draw_list = SortedByZUp(@, n),
              !.entity_draw_list_needs_sorting = FALSE]

sort_draw_list(L, n) ==
    [L EXCEPT !.entity_draw_list = SortedByZ(@, n),
              !.entity_draw_list_needs_sorting = FALSE]

\* lines 180-184: the requests buffered during the pass go through add / remove
RECURSIVE Resubmit(_, _, _, _)
Resubmit(W, adds, removes, i) ==
    IF i <= Len(adds) THEN Resubmit(add(W, adds[i]), adds, removes, i + 1)
    ELSE IF i <= Len(adds) + Len(removes)
    THEN Resubmit(remove(W, removes[i - Len(adds)]), adds, removes, i + 1)
    ELSE W

\* lines 165-187: sort, clear the queues, leave the pass, resubmit
FinishUpdateList(W) ==
    LET L1 == IF W.el.entity_draw_list_needs_sorting
              THEN sort_draw_list(W.el, W.ent) ELSE W.el
        L2 == [L1 EXCEPT !.to_add = <<>>, !.to_remove = <<>>, !.name_to_add = {},
                         !.to_activate = <<>>, !.to_deactivate = <<>>,
                         !.is_updating = FALSE]
        W3 == Resubmit([W EXCEPT !.el = L2], L2.added_while_updating,
                       L2.removed_while_updating, 1)
    IN  IF L2.added_while_updating # <<>> \/ L2.removed_while_updating # <<>>
        THEN [W3 EXCEPT !.el.added_while_updating = <<>>,
                        !.el.removed_while_updating = <<>>]
        ELSE [W EXCEPT !.el = L2]

\* ------------------------------------------------------------ user callbacks
\* What the body of an overridden callback may do to the list: nothing, or
\* one of these requests on some entity.
OpKinds == {"add", "remove", "destroy", "activate", "deactivate"}

NoOp == <<"none", 0>>

OpChoices == {NoOp} \cup (IF nops < MaxOps THEN OpKinds \X Entities ELSE {})

CallbackOp(W, op) ==
    CASE op[1] = "add" -> add(W, op[2])
      [] op[1] = "remove" -> remove(W, op[2])
      [] op[1] = "destroy" -> destroy(W, op[2])
      [] op[1] = "activate" -> active_setter(W, op[2], TRUE)
      [] op[1] = "deactivate" -> active_setter(W, op[2], FALSE)
      [] OTHER -> W

Bump(c, e, cb) == [c EXCEPT ![e][cb] = @ + 1]

\* one callback of the pass: the world W0 the callback starts in, the entity
\* and callback name, the loop it belongs to
LifecycleCall(W0, e, cb, op) ==
    LET W1 == CallbackOp(W0, op)
        W2 == IF cb = "start" /\ ~W1.raised THEN [W1 EXCEPT !.ent[e].started = TRUE] ELSE W1
    IN  /\ el' = W2.el
        /\ ent' = W2.ent
        /\ pc' = IF W2.raised THEN "crashed" ELSE pc
        /\ idx' = idx + 1
        /\ nops' = IF op = NoOp THEN nops ELSE nops + 1
        /\ lastOp' = op
        /\ cnt' = Bump(cnt, e, cb)
        /\ log' = Append(log, <<cb, e>>)
        /\ UNCHANGED <<inLoad, frame, updated, drawn, fresh, requested, deferred, collVars>>

\* ------------------------------------------------------------------ actions
NoMove == [mover |-> 0, axis |-> "none", x |-> 0, y |-> 0, move |-> 0]

\* no camera list, no coroutine driver in use
CamIdle == cameras = <<>> /\ cam = <<>> /\ camOp = <<>>

CoIdle == co = <<>> /\ gen = <<>> /\ coHist = <<>>

RenderIdle == rc = <<>>

MouseIdle == ms = <<>>

LevelIdle == lv = <<>>

QueueIdle == rq = <<>>

AuxIdle == RenderIdle /\ MouseIdle /\ LevelIdle /\ QueueIdle

\* the Engine class before Engine.start (engine.py 61-62), with the history
\* of the running iteration: the scene it began with, the load_scene calls
NoEngine == [scene |-> 0, next_scene |-> 0, frame |-> 0, start_scene |-> 0,
             requests |-> <<>>]

\* no run of move calls
NoRun == [origin |-> 0, total |-> 0, streak |-> 0, obstructed |-> FALSE, xr |-> 0, yr |-> 0]

\* the variables a specification does not use keep these values
ExtInit ==
    /\ mv = NoRun
    /\ prevDraw = <<>>
    /\ eng = NoEngine
    /\ sc = <<>>
    /\ CamIdle
    /\ CoIdle
    /\ AuxIdle

NoCounts == [cb \in {"awake", "on_activate", "start", "on_deactivate", "end"} |-> 0]

\* Scene and entities constructed, nothing loaded yet.  Names are what the
\* game gave the entities before adding them (the name setter without a scene).
Init ==
    /\ el = NewEntityList
    /\ ent \in {[e \in Entities |-> NewEntity(n[e])] : n \in [Entities -> Names]}
    /\ pc = "load"
    /\ idx = 0
    /\ inLoad = TRUE
    /\ frame = 0
    /\ nops = 0
    /\ cnt = [e \in Entities |-> NoCounts]
    /\ log = <<>>
    /\ updated = {}
    /\ drawn = <<>>
    /\ fresh = {}
    /\ requested = {}
    /\ lastOp = NoOp
    /\ deferred = [adds |-> {}, removes |-> {}]
    /\ paused = FALSE
    /\ events = <<>>
    /\ touched = {}
    /\ contact = {}
    /\ pressed = {}
    /\ quiet = TRUE
    /\ lastMove = NoMove
    /\ ExtInit

RECURSIVE AddFirst(_, _, _)
AddFirst(W, i, k) == IF i > k THEN W ELSE AddFirst(add(W, i), i + 1, k)

\* Scene.on_load up to its update_list call: load_entities() adds the first k
\* entities, then the draw list is flagged
LoadEntities ==
    /\ pc = "load"
    /\ \E k \in 0..NumEntities :
         LET W == AddFirst(World(el, ent), 1, k)
         IN  /\ el' = flag_entity_draw_list_needs_sorting(W.el)
             /\ ent' = W.ent
    /\ pc' = "begin"
    /\ UNCHANGED <<idx, inLoad, frame, nops, cnt, log, updated, drawn, fresh, requested, lastOp,
                   deferred, collVars>>

\* update_list, lines 128-144: enter the pass and merge the queues
UL_Begin ==
    /\ pc = "begin"
    /\ LET W0 == World([el EXCEPT !.is_updating = TRUE], ent)
           W == RemoveQueued(AddQueued(W0, 1), 1)
       IN  /\ el' = W.el
           /\ ent' = W.ent
           /\ pc' = IF W.raised THEN "crashed" ELSE "awake"
    /\ idx' = 0
    /\ log' = <<>>
    /\ updated' = {}
    /\ drawn' = <<>>
    /\ fresh' = {}
    /\ lastOp' = NoOp
    /\ UNCHANGED <<inLoad, frame, nops, cnt, requested, deferred, collVars>>

\* lines 147-148
UL_Awake ==
    /\ pc = "awake" /\ idx < Len(el.to_add)
    /\ \E op \in OpChoices :
         LifecycleCall(World(el, ent), el.to_add[idx + 1], "awake", op)

\* lines 150-152
UL_Activate ==
    /\ pc = "activate" /\ idx < Len(el.to_activate)
    /\ LET e == el.to_activate[idx + 1]
       IN  \E op \in OpChoices :
             LifecycleCall(World(el, [ent EXCEPT ![e].active = TRUE]), e, "on_activate", op)

\* lines 154-156
UL_Start ==
    /\ pc = "start" /\ idx < Len(el.to_add)
    /\ \E op \in OpChoices :
         LifecycleCall(World(el, ent), el.to_add[idx + 1], "start", op)

\* lines 158-160
UL_Deactivate ==
    /\ pc = "deactivate" /\ idx < Len(el.to_deactivate)
    /\ LET e == el.to_deactivate[idx + 1]
       IN  \E op \in OpChoices :
             LifecycleCall(World(el, [ent EXCEPT ![e].active = FALSE]), e, "on_deactivate", op)

\* lines 162-163
UL_End ==
    /\ pc = "end" /\ idx < Len(el.to_remove)
    /\ \E op \in OpChoices :
         LifecycleCall(World(el, ent), el.to_remove[idx + 1], "end", op)

\* the list each loop of the pass iterates, and the loop that follows it
LoopList(p) ==
    CASE p = "awake" -> el.to_add
      [] p = "activate" -> el.to_activate
      [] p = "start" -> el.to_add
      [] p = "deactivate" -> el.to_deactivate
      [] p = "end" -> el.to_remove

NextLoop(p) ==
    CASE p = "awake" -> "activate"
      [] p = "activate" -> "start"
      [] p = "start" -> "deactivate"
      [] p = "deactivate" -> "end"
      [] p = "end" -> "finish"

\* a Python for-loop ends when its index reaches the current length of the list
UL_LoopExit ==
    /\ pc \in {"awake", "activate", "start", "deactivate", "end"}
    /\ idx >= Len(LoopList(pc))
    /\ pc' = NextLoop(pc)
    /\ idx' = 0
    /\ lastOp' = NoOp
    /\ UNCHANGED <<el, ent, inLoad, frame, nops, cnt, log, updated, drawn, fresh, requested,
                   deferred, collVars>>

\* lines 165-187; then Scene.update goes on with EntityList.update, and
\* Scene.on_load returns to the engine loop, whose next Scene.update starts
\* with update_list again (scene.py 126-144)
UL_Finish ==
    /\ pc = "finish"
    /\ LET W == FinishUpdateList(World(el, ent))
       IN  /\ el' = W.el
           /\ ent' = W.ent
           /\ deferred' = [adds |-> Range(el.added_while_updating) \cap Range(W.el.to_add),
                           removes |-> Range(el.removed_while_updating) \cap Range(W.el.to_remove)]
    /\ pc' = IF inLoad THEN "begin" ELSE "update"
    /\ inLoad' = FALSE
    /\ idx' = 0
    /\ lastOp' = NoOp
    /\ UNCHANGED <<frame, nops, cnt, log, updated, drawn, fresh, requested, collVars>>

\* EntityList.update, lines 204-207, for entities with collisions and mouse
\* collisions disabled (the constructor's default: the bookkeeping loops of
\* lines 197-201 and 210-214 then change nothing) in a scene that is not paused
UpdateEntity ==
    /\ pc = "update" /\ idx < Len(el.entity_list)
    /\ LET e == el.entity_list[idx + 1]
       IN  IF ent[e].active
           THEN \E op \in OpChoices :
                  LET W == CallbackOp(World(el, ent), op)
                  IN  /\ el' = W.el
                      /\ ent' = W.ent
                      /\ pc' = IF W.raised THEN "crashed" ELSE pc
                      /\ nops' = IF op = NoOp THEN nops ELSE nops + 1
                      /\ lastOp' = op
                      /\ updated' = updated \cup {e}
                      /\ fresh' = IF op[1] = "add" /\ ~SeqHas(el.entity_list, op[2])
                                  THEN fresh \cup {op[2]} ELSE fresh
           ELSE /\ lastOp' = NoOp
                /\ UNCHANGED <<el, ent, pc, nops, updated, fresh>>
    /\ idx' = idx + 1
    /\ UNCHANGED <<inLoad, frame, cnt, log, drawn, requested, deferred, collVars>>

UpdateExit ==
    /\ pc = "update" /\ idx >= Len(el.entity_list)
    /\ pc' = "draw"
    /\ idx' = 0
    /\ requested' = fresh \cap Range(el.to_add)
    /\ lastOp' = NoOp
    /\ UNCHANGED <<el, ent, inLoad, frame, nops, cnt, log, updated, drawn, fresh, deferred,
                   collVars>>

\* EntityList.draw, lines 216-221, for a camera without tag filters, then the
\* frame counter (engine.py 381-386)
Draw ==
    /\ pc = "draw"
    /\ drawn' = SelectSeq(el.entity_draw_list, LAMBDA e : ent[e].active)
    /\ frame' = frame + 1
    /\ pc' = IF frame + 1 >= MaxFrames THEN "stopped" ELSE "begin"
    /\ lastOp' = NoOp
    /\ UNCHANGED <<el, ent, idx, inLoad, nops, cnt, log, updated, fresh, requested, deferred,
                   collVars>>

Next ==
    \/ LoadEntities
    \/ UL_Begin
    \/ UL_Awake
    \/ UL_Activate
    \/ UL_Start
    \/ UL_Deactivate
    \/ UL_End
    \/ UL_LoopExit
    \/ UL_Finish
    \/ UpdateEntity
    \/ UpdateExit
    \/ Draw

Spec == Init /\ [][Next]_vars

\* ============================================================== collisions
\* Movement and collision bookkeeping (entity.py 307-480, entity_list.py
\* 194-214) in a loaded scene.  Positions are whole pixels; an amount and the
\* remainders _xr / _yr are counted in 1/Den of a pixel.
NumBodies == 3
MaxX == 3
MaxY == 1
MaxActs == 2
Den == 10

Bodies == 1..NumBodies
WorldX == 0..MaxX
WorldY == 0..MaxY
BodyNames == <<"p", "q", "r", "s", "t">>
Sides == {1, 2}

\* whole-pixel amounts, in 1/Den of a pixel
AmountsX == {k * Den : k \in (-MaxX..MaxX) \ {0}}
AmountsY == {k * Den : k \in (-MaxY..MaxY) \ {0}}

sign(n) == IF n < 0 THEN -1 ELSE 1

Rect(x, y, w, h) == [x |-> x, y |-> y, width |-> w, height |-> h]

left(r) == r.x

right(r) == r.x + r.width - 1

top(r) == r.y

bottom(r) == r.y + r.height - 1

rect_intersects_rect(a, b) ==
    /\ left(b) <= right(a)
    /\ left(a) <= right(b)
    /\ top(b) <= bottom(a)
    /\ top(a) <= bottom(b)

bbox(n, e) == Rect(n[e].x, n[e].y, n[e].width, n[e].height)

\* Entity.intersects, the default: the bounding box against the rect
intersects(n, e, rect) == rect_intersects_rect(bbox(n, e), rect)

active_entities(W) == SelectSeq(W.el.entity_list, LAMBDA e : W.ent[e].active)

\* the overlap test alone, without the two early returns of lines 459-466
_check_collision_at_overlap(W, e, x, y, other) ==
    intersects(W.ent, other, Rect(x, y, W.ent[e].width, W.ent[e].height))

_check_collision_at(W, e, x, y, other) ==
    IF ~W.ent[e].active \/ ~W.ent[other].active THEN FALSE
    ELSE IF ~W.ent[e].collisions_enabled \/ ~W.ent[other].collisions_enabled THEN FALSE
    ELSE intersects(W.ent, other, Rect(x, y, W.ent[e].width, W.ent[e].height))

\* on_collision_begin / stay / end are the defaults (pass): W.events records
\* which callback ran on which entity with which other entity
_register_collision(W, e, other) ==
    IF other \in W.ent[e].collisions_this_frame THEN W
    ELSE [W EXCEPT !.ent[e].collisions_this_frame = @ \cup {other},
                   !.events = IF other \notin W.ent[e].collisions_last_frame
                              THEN Append(@, <<"begin", e, other>>) ELSE @]

\* The generators of lines 439-457.  They are consumed while collisions are
\* registered; registering changes no field the generator reads.
_get_solid_collisions(W, e, x, y) ==
    SelectSeq(active_entities(W),
              LAMBDA o : o # e /\ W.ent[o].solid /\ _check_collision_at(W, e, x, y, o))

_get_non_solid_collisions(W, e, x, y) ==
    SelectSeq(active_entities(W),
              LAMBDA o : o # e /\ ~W.ent[o].solid /\ _check_collision_at(W, e, x, y, o))

\* the loop body of lines 420-423 / 432-435 over the entities found, from i on
RECURSIVE RegisterAll(_, _, _, _)
RegisterAll(W, e, found, i) ==
    IF i > Len(found) THEN W
    ELSE RegisterAll(_register_collision(_register_collision(W, e, found[i]), found[i], e),
                     e, found, i + 1)

\* a non-solid pass that records the collision on the mover only
_invoke_non_solid_collisions_one_way(W, e, x, y) ==
    LET found == _get_non_solid_collisions(W, e, x, y)
        RECURSIVE Reg(_, _)
        Reg(V, i) == IF i > Len(found) THEN V
                     ELSE Reg(_register_collision(V, e, found[i]), i + 1)
    IN  [W |-> Reg(W, 1), collision_invoked |-> found # <<>>]

\* _invoke_*_collisions return the world and whether a collision was invoked
_invoke_solid_collisions(W, e, x, y) ==
    LET found == _get_solid_collisions(W, e, x, y)
    IN  [W |-> RegisterAll(W, e, found, 1), collision_invoked |-> found # <<>>]

_invoke_non_solid_collisions(W, e, x, y) ==
    LET found == _get_non_solid_collisions(W, e, x, y)
    IN  [W |-> RegisterAll(W, e, found, 1), collision_invoked |-> found # <<>>]

\* the while loop of move_x, lines 317-330
RECURSIVE WalkX(_, _, _, _)
WalkX(W, e, move, direction) ==
    IF move = 0 THEN W
    ELSE LET new_x == W.ent[e].x + direction
             S == _invoke_solid_collisions(W, e, new_x, W.ent[e].y)
         IN  IF S.collision_invoked
             THEN [S.W EXCEPT !.ent[e].xr = 0]
             ELSE LET W1 == [S.W EXCEPT !.ent[e].x = new_x]
                  IN  WalkX(_invoke_non_solid_collisions(W1, e, new_x, W1.ent[e].y).W,
                            e, move - direction, direction)

\* the while loop of move_y, lines 342-355
RECURSIVE WalkY(_, _, _, _)
WalkY(W, e, move, direction) ==
    IF move = 0 THEN W
    ELSE LET new_y == W.ent[e].y + direction
             S == _invoke_solid_collisions(W, e, W.ent[e].x, new_y)
         IN  IF S.collision_invoked
             THEN [S.W EXCEPT !.ent[e].yr = 0]
             ELSE LET W1 == [S.W EXCEPT !.ent[e].y = new_y]
                  IN  WalkY(_invoke_non_solid_collisions(W1, e, W1.ent[e].x, new_y).W,
                            e, move - direction, direction)

\* move_x that looks for solid entities at the destination only
move_x_jump(W, e, amount) ==
    LET t == amount + W.ent[e].xr
        move == t \div Den
        W0 == [W EXCEPT !.ent[e].xr = t % Den]
        S == _invoke_solid_collisions(W0, e, W0.ent[e].x + move, W0.ent[e].y)
    IN  IF move = 0 THEN W0
        ELSE IF S.collision_invoked THEN [S.W EXCEPT !.ent[e].xr = 0]
        ELSE _invoke_non_solid_collisions([S.W EXCEPT !.ent[e].x = @ + move], e,
                                          W0.ent[e].x + move, W0.ent[e].y).W

\* move_x that leaves the remainder of divmod alone when a step is blocked
move_x_keep(W, e, amount) ==
    LET t == amount + W.ent[e].xr
        move == t \div Den
    IN  [WalkX([W EXCEPT !.ent[e].xr = t % Den], e, move, sign(move))
            EXCEPT !.ent[e].xr = t % Den]

\* move_x that rounds the amount towards zero and drops the rest
move_x_trunc(W, e, amount) ==
    LET t == amount + W.ent[e].xr
        move == IF t < 0 THEN -((-t) \div Den) ELSE t \div Den
    IN  WalkX([W EXCEPT !.ent[e].xr = 0], e, move, sign(move))

\* divmod(amount + self._xr, 1) with the amount in 1/Den of a pixel
move_x(W, e, amount) ==
    LET t == amount + W.ent[e].xr
        move == t \div Den
    IN  WalkX([W EXCEPT !.ent[e].xr = t % Den], e, move, sign(move))

move_y(W, e, amount) ==
    LET t == amount + W.ent[e].yr
        move == t \div Den
    IN  WalkY([W EXCEPT !.ent[e].yr = t % Den], e, move, sign(move))

_collisions_pre_update(n, e) ==
    [n EXCEPT ![e].collisions_last_frame = n[e].collisions_this_frame,
              ![e].collisions_this_frame = {}]

\* the entities of a set in ascending order (a Python set has no order of its
\* own; the callbacks called in that order are the defaults)
RECURSIVE SetToSeq(_)
SetToSeq(S) ==
    IF S = {} THEN <<>>
    ELSE LET m == CHOOSE a \in S : \A b \in S : a <= b
         IN  <<m>> \o SetToSeq(S \ {m})

\* the second loop of _collisions_post_update, lines 391-395
RECURSIVE StayOrEnd(_, _, _, _)
StayOrEnd(W, e, last, i) ==
    IF i > Len(last) THEN W
    ELSE LET cb == IF last[i] \in W.ent[e].collisions_this_frame THEN "stay" ELSE "end"
         IN  StayOrEnd([W EXCEPT !.events = Append(@, <<cb, e, last[i]>>)], e, last, i + 1)

_collisions_post_update(W, e) ==
    LET me == W.ent[e]
        again == {o \in me.collisions_last_frame \ me.collisions_this_frame :
                      _check_collision_at(W, e, me.x, me.y, o)}
        W1 == [W EXCEPT !.ent[e].collisions_this_frame = @ \cup again]
    IN  StayOrEnd(W1, e, SetToSeq(me.collisions_last_frame), 1)

\* EntityList.update, lines 197-201: the first loop, from position i on
RECURSIVE PreUpdateAll(_, _, _)
PreUpdateAll(W, p, i) ==
    IF i > Len(W.el.entity_list) THEN W
    ELSE LET e == W.el.entity_list[i]
         IN  IF p /\ W.ent[e].pausable THEN PreUpdateAll(W, p, i + 1)
             ELSE PreUpdateAll([W EXCEPT !.ent = _collisions_pre_update(@, e)], p, i + 1)

\* EntityList.update, lines 210-214: the last loop, from position i on
RECURSIVE PostUpdateAll(_, _, _)
PostUpdateAll(W, p, i) ==
    IF i > Len(W.el.entity_list) THEN W
    ELSE LET e == W.el.entity_list[i]
         IN  IF p /\ W.ent[e].pausable THEN PostUpdateAll(W, p, i + 1)
             ELSE PostUpdateAll(_collisions_post_update(W, e), p, i + 1)

\* update_list (lines 124-187) for entities whose lifecycle callbacks are the
\* defaults: no callback touches the list, so each loop visits every item
update_list(W) ==
    LET W1 == RemoveQueued(AddQueued([W EXCEPT !.el.is_updating = TRUE], 1), 1)
        L == W1.el
        n1 == [e \in DOMAIN W1.ent |->
                 IF SeqHas(L.to_activate, e) THEN [W1.ent[e] EXCEPT !.active = TRUE]
                 ELSE W1.ent[e]]
        n2 == [e \in DOMAIN n1 |->
                 IF SeqHas(L.to_add, e) THEN [n1[e] EXCEPT !.started = TRUE] ELSE n1[e]]
        n3 == [e \in DOMAIN n2 |->
                 IF SeqHas(L.to_deactivate, e) THEN [n2[e] EXCEPT !.active = FALSE]
                 ELSE n2[e]]
    IN  IF W1.raised THEN W1 ELSE FinishUpdateList([W1 EXCEPT !.ent = n3])

CollWorld(l, n, ev) == [el |-> l, ent |-> n, raised |-> FALSE, events |-> ev]

\* an entity the game configured before adding it, once the scene is loaded
Body(e, x, y, side, solid, pausable) ==
    [NewEntity(BodyNames[e]) EXCEPT !.x = x, !.y = y, !.width = side, !.height = side,
                                    !.solid = solid, !.pausable = pausable,
                                    !.collisions_enabled = TRUE,
                                    !.scene = TRUE, !.started = TRUE]

\* the list of a loaded scene: every body live, nothing queued
LoadedList ==
    [NewEntityList EXCEPT
        !.entity_list = [i \in Bodies |-> i],
        !.entity_draw_list = [i \in Bodies |-> i],
        !.entity_map = [nm \in {BodyNames[e] : e \in Bodies} |->
                           CHOOSE e \in Bodies : BodyNames[e] = nm]]

\* Entity 1 is the one entity whose class overrides update(); it is not
\* pausable and starts in the corner.  The others keep the default update()
\* and are placed anywhere, solid or not.
InitColl ==
    /\ el = LoadedList
    /\ ent \in {[e \in Bodies |-> IF e = 1 THEN Body(1, 0, 0, 1, FALSE, FALSE)
                                  ELSE Body(e, c[e][1], c[e][2], c[e][3], c[e][4], TRUE)] :
                c \in [Bodies -> WorldX \X WorldY \X Sides \X BOOLEAN]}
    /\ pc = "begin"
    /\ idx = 0
    /\ inLoad = FALSE
    /\ frame = 0
    /\ nops = 0
    /\ cnt = [e \in Bodies |-> NoCounts]
    /\ log = <<>>
    /\ updated = {}
    /\ drawn = <<>>
    /\ fresh = {}
    /\ requested = {}
    /\ lastOp = NoOp
    /\ deferred = [adds |-> {}, removes |-> {}]
    /\ paused = FALSE
    /\ events = <<>>
    /\ touched = {}
    /\ contact = {}
    /\ pressed = {}
    /\ quiet = TRUE
    /\ lastMove = NoMove
    /\ ExtInit

listHist == <<inLoad, frame, cnt, log, updated, drawn, fresh, requested, lastOp, deferred,
              extVars>>

\* Scene.update, line 142: update_list
Scene_update_list ==
    /\ pc = "begin"
    /\ LET W == update_list(CollWorld(el, ent, events))
       IN  /\ el' = W.el
           /\ ent' = W.ent
           /\ pc' = IF W.raised THEN "crashed" ELSE "pre"
           /\ quiet' = (~paused /\ W.ent = ent /\ W.el.entity_list = el.entity_list)
    /\ lastMove' = NoMove
    /\ UNCHANGED <<idx, nops, paused, events, touched, contact, pressed, listHist>>

\* the pairs <<a, b>> for which a got on_collision_begin or on_collision_stay
Touched == {<<ev[2], ev[3]>> : ev \in {v \in Range(events) : v[1] # "end"}}

\* two entities that collide where they are
Overlap(n, a, b) ==
    _check_collision_at(CollWorld(el, n, <<>>), a, n[a].x, n[a].y, b)

\* the pairs a move of e stopped against each other: the solid entities found
\* one pixel further in direction dir, when the move did not go all the way
Pressed(W, e, axis, dir, stopped) ==
    LET found == IF axis = "x"
                 THEN _get_solid_collisions(W, e, W.ent[e].x + dir, W.ent[e].y)
                 ELSE _get_solid_collisions(W, e, W.ent[e].x, W.ent[e].y + dir)
    IN  IF stopped THEN {<<e, b>> : b \in Range(found)} \cup {<<b, e>> : b \in Range(found)}
        ELSE {}

\* EntityList.update, lines 197-201
EntityList_pre_update ==
    /\ pc = "pre"
    /\ ent' = PreUpdateAll(CollWorld(el, ent, <<>>), paused, 1).ent
    /\ touched' = Touched
    /\ contact' = {t \in Touched : t \in pressed \/ Overlap(ent, t[1], t[2])}
    /\ pressed' = {}
    /\ events' = <<>>
    /\ pc' = "update"
    /\ idx' = 0
    /\ UNCHANGED <<el, nops, paused, quiet, lastMove, listHist>>

\* the entity the second loop (lines 204-207) is at, if its update() runs
Updating(e) ==
    /\ pc = "update" /\ idx < Len(el.entity_list)
    /\ e = el.entity_list[idx + 1]
    /\ ent[e].active
    /\ ~(paused /\ ent[e].pausable)

\* update() of an entity that acts on the scene
Acting(e) == Updating(e) /\ e = 1 /\ nops < MaxActs

InWorld(n, e) == n[e].x \in WorldX /\ n[e].y \in WorldY

\* an entity that is skipped, or whose update() does nothing
Entity_update_idle ==
    /\ pc = "update" /\ idx < Len(el.entity_list)
    /\ idx' = idx + 1
    /\ lastMove' = NoMove
    /\ UNCHANGED <<el, ent, pc, nops, paused, events, touched, contact, pressed, quiet,
                   listHist>>

Entity_update_move_x ==
    \E e \in Bodies, amount \in AmountsX :
        /\ Acting(e)
        /\ LET W == move_x(CollWorld(el, ent, events), e, amount)
           IN  /\ InWorld(W.ent, e)
               /\ ent' = W.ent
               /\ events' = W.events
               /\ lastMove' = [mover |-> e, axis |-> "x", x |-> ent[e].x, y |-> ent[e].y,
                               move |-> (amount + ent[e].xr) \div Den]
               /\ pressed' = Pressed(W, e, "x", sign(amount),
                                     W.ent[e].x # ent[e].x + (amount + ent[e].xr) \div Den)
        /\ idx' = idx + 1
        /\ nops' = nops + 1
        /\ quiet' = FALSE
        /\ UNCHANGED <<el, pc, paused, touched, contact, listHist>>

Entity_update_move_y ==
    \E e \in Bodies, amount \in AmountsY :
        /\ Acting(e)
        /\ LET W == move_y(CollWorld(el, ent, events), e, amount)
           IN  /\ InWorld(W.ent, e)
               /\ ent' = W.ent
               /\ events' = W.events
               /\ lastMove' = [mover |-> e, axis |-> "y", x |-> ent[e].x, y |-> ent[e].y,
                               move |-> (amount + ent[e].yr) \div Den]
               /\ pressed' = Pressed(W, e, "y", sign(amount),
                                     W.ent[e].y # ent[e].y + (amount + ent[e].yr) \div Den)
        /\ idx' = idx + 1
        /\ nops' = nops + 1
        /\ quiet' = FALSE
        /\ UNCHANGED <<el, pc, paused, touched, contact, listHist>>

\* self.scene.paused = not self.scene.paused
Entity_update_pause ==
    \E e \in Bodies :
        /\ Acting(e)
        /\ paused' = ~paused
        /\ idx' = idx + 1
        /\ nops' = nops + 1
        /\ quiet' = FALSE
        /\ lastMove' = NoMove
        /\ UNCHANGED <<el, ent, pc, events, touched, contact, pressed, listHist>>

\* other.active = not other.active
Entity_update_set_active ==
    \E e \in Bodies, o \in Bodies :
        /\ Acting(e) /\ o # e
        /\ el' = active_setter(CollWorld(el, ent, events), o, ~ent[o].active).el
        /\ idx' = idx + 1
        /\ nops' = nops + 1
        /\ quiet' = FALSE
        /\ lastMove' = NoMove
        /\ UNCHANGED <<ent, pc, paused, events, touched, contact, pressed, listHist>>

\* other.destroy()
Entity_update_destroy ==
    \E e \in Bodies, o \in Bodies :
        /\ Acting(e) /\ o # e
        /\ LET W == destroy(CollWorld(el, ent, events), o)
           IN  /\ el' = W.el
               /\ pc' = IF W.raised THEN "crashed" ELSE pc
        /\ idx' = idx + 1
        /\ nops' = nops + 1
        /\ quiet' = FALSE
        /\ lastMove' = NoMove
        /\ UNCHANGED <<ent, paused, events, touched, contact, pressed, listHist>>

\* EntityList.update, lines 210-214, once the second loop is through
EntityList_post_update ==
    /\ pc = "update" /\ idx >= Len(el.entity_list)
    /\ LET W == PostUpdateAll(CollWorld(el, ent, events), paused, 1)
       IN  /\ ent' = W.ent
           /\ events' = W.events
    /\ pc' = "begin"
    /\ idx' = 0
    /\ lastMove' = NoMove
    /\ UNCHANGED <<el, nops, paused, touched, contact, pressed, quiet, listHist>>

NextColl ==
    \/ Scene_update_list
    \/ EntityList_pre_update
    \/ Entity_update_idle
    \/ Entity_update_move_x
    \/ Entity_update_move_y
    \/ Entity_update_pause
    \/ Entity_update_set_active
    \/ Entity_update_destroy
    \/ EntityList_post_update

SpecColl == InitColl /\ [][NextColl]_vars

\* The same scene with the flags that gate a collision drawn freely: entity 1
\* and entity 2 have collisions enabled or not, entity 2 lies anywhere, solid
\* or not, and entity 3 is a solid wall at the far corner.
InitGate ==
    /\ el = LoadedList
    /\ ent \in {[e \in Bodies |->
                   IF e = 1 THEN [Body(1, 0, 0, 1, FALSE, FALSE) EXCEPT !.collisions_enabled = on1]
                   ELSE IF e = 2 THEN [Body(2, c[1], c[2], c[3], c[4], TRUE)
                                          EXCEPT !.collisions_enabled = c[5]]
                   ELSE Body(e, MaxX, MaxY, 1, TRUE, TRUE)] :
                 on1 \in BOOLEAN, c \in WorldX \X WorldY \X Sides \X BOOLEAN \X BOOLEAN}
    /\ pc = "begin"
    /\ idx = 0
    /\ inLoad = FALSE
    /\ frame = 0
    /\ nops = 0
    /\ cnt = [e \in Bodies |-> NoCounts]
    /\ log = <<>>
    /\ updated = {}
    /\ drawn = <<>>
    /\ fresh = {}
    /\ requested = {}
    /\ lastOp = NoOp
    /\ deferred = [adds |-> {}, removes |-> {}]
    /\ paused = FALSE
    /\ events = <<>>
    /\ touched = {}
    /\ contact = {}
    /\ pressed = {}
    /\ quiet = TRUE
    /\ lastMove = NoMove
    /\ ExtInit

SpecGate == InitGate /\ [][NextColl]_vars

\* ================================================================ movement
\* move_x / move_y as functions: a run of calls on entity 1, with amounts
\* that are fractions of a pixel, in a scene whose other entities rest.
MaxCalls == 5

\* 0.3, -0.3, 1, -1.5 and 2.5 pixels; 0.5, -0.5 and 1 pixel
FracX == {(3 * Den) \div 10, -((3 * Den) \div 10), Den, -((15 * Den) \div 10), (25 * Den) \div 10}
FracY == {Den \div 2, -(Den \div 2), Den}

\* the remainder entity 1 starts with
Remainders == {0, (4 * Den) \div 10}

\* the list of a loaded scene whose live entities are B
ListOf(B) ==
    [NewEntityList EXCEPT
        !.entity_list = SetToSeq(B),
        !.entity_draw_list = SetToSeq(B),
        !.entity_map = [nm \in {BodyNames[e] : e \in B} |->
                           CHOOSE e \in B : BodyNames[e] = nm]]

\* a solid entity lies on the path of a move of e by `move` pixels
Obstructed(W, e, axis, move) ==
    \E k \in 1..(move * sign(move)) :
        IF axis = "x"
        THEN _get_solid_collisions(W, e, W.ent[e].x + k * sign(move), W.ent[e].y) # <<>>
        ELSE _get_solid_collisions(W, e, W.ent[e].x, W.ent[e].y + k * sign(move)) # <<>>

InitMove ==
    /\ el = ListOf(Entities)
    /\ \E r \in Remainders :
          /\ ent \in {[e \in Entities |->
                         IF e = 1 THEN [Body(1, 1, 0, 1, FALSE, FALSE) EXCEPT !.xr = r]
                         ELSE Body(e, c[e][1], c[e][2], 1, c[e][3], TRUE)] :
                      c \in [Entities -> WorldX \X WorldY \X BOOLEAN]}
          /\ mv = [origin |-> Den + r, total |-> 0, streak |-> IF r = 0 THEN 0 ELSE -1,
                   obstructed |-> FALSE, xr |-> r, yr |-> 0]
    /\ prevDraw = <<>>
    /\ eng = NoEngine
    /\ sc = <<>>
    /\ CamIdle
    /\ CoIdle
    /\ AuxIdle
    /\ pc = "call"
    /\ idx = 0
    /\ inLoad = FALSE
    /\ frame = 0
    /\ nops = 0
    /\ cnt = [e \in Entities |-> NoCounts]
    /\ log = <<>>
    /\ updated = {}
    /\ drawn = <<>>
    /\ fresh = {}
    /\ requested = {}
    /\ lastOp = NoOp
    /\ deferred = [adds |-> {}, removes |-> {}]
    /\ paused = FALSE
    /\ events = <<>>
    /\ touched = {}
    /\ contact = {}
    /\ pressed = {}
    /\ quiet = TRUE
    /\ lastMove = NoMove

moveRest == <<el, pc, idx, inLoad, frame, cnt, log, updated, drawn, fresh, requested, lastOp,
              deferred, paused, touched, contact, pressed, quiet, prevDraw, eng, sc,
              camVars, coVars, auxVars>>

Call_move_x ==
    \E amount \in FracX :
        /\ pc = "call" /\ nops < MaxCalls
        /\ LET W0 == CollWorld(el, ent, events)
               W == move_x(W0, 1, amount)
               move == (amount + ent[1].xr) \div Den
           IN  /\ InWorld(W.ent, 1)
               /\ ent' = W.ent
               /\ events' = W.events
               /\ lastMove' = [mover |-> 1, axis |-> "x", x |-> ent[1].x, y |-> ent[1].y,
                               move |-> move]
               /\ mv' = [mv EXCEPT !.total = @ + amount,
                                   !.streak = IF @ >= 0 /\ amount = (3 * Den) \div 10
                                              THEN @ + 1 ELSE -1,
                                   !.obstructed = @ \/ Obstructed(W0, 1, "x", move),
                                   !.xr = ent[1].xr, !.yr = ent[1].yr]
        /\ nops' = nops + 1
        /\ UNCHANGED moveRest

Call_move_y ==
    \E amount \in FracY :
        /\ pc = "call" /\ nops < MaxCalls
        /\ LET W == move_y(CollWorld(el, ent, events), 1, amount)
           IN  /\ InWorld(W.ent, 1)
               /\ ent' = W.ent
               /\ events' = W.events
               /\ lastMove' = [mover |-> 1, axis |-> "y", x |-> ent[1].x, y |-> ent[1].y,
                               move |-> (amount + ent[1].yr) \div Den]
               /\ mv' = [mv EXCEPT !.streak = -1, !.xr = ent[1].xr, !.yr = ent[1].yr]
        /\ nops' = nops + 1
        /\ UNCHANGED moveRest

NextMove ==
    \/ Call_move_x
    \/ Call_move_y

SpecMove == InitMove /\ [][NextMove]_vars

\* =============================================================== draw order
\* The draw list of a scene whose entities have different z: on_load adds
\* every entity, then game code adds, removes and re-layers entities between
\* the passes of update_list; the lifecycle callbacks are the defaults.
Zs == {-3, 0, 5}

InitDraw ==
    /\ \E zs \in [Bodies -> Zs] :
          LET n0 == [e \in Bodies |-> [NewEntity(BodyNames[e]) EXCEPT !.z = zs[e]]]
              W == AddFirst(World(NewEntityList, n0), 1, NumBodies)
          IN  /\ el = flag_entity_draw_list_needs_sorting(W.el)
              /\ ent = W.ent
    /\ pc = "begin"
    /\ idx = 0
    /\ inLoad = FALSE
    /\ frame = 0
    /\ nops = 0
    /\ cnt = [e \in Bodies |-> NoCounts]
    /\ log = <<>>
    /\ updated = {}
    /\ drawn = <<>>
    /\ fresh = {}
    /\ requested = {}
    /\ lastOp = NoOp
    /\ deferred = [adds |-> {}, removes |-> {}]
    /\ paused = FALSE
    /\ events = <<>>
    /\ touched = {}
    /\ contact = {}
    /\ pressed = {}
    /\ quiet = TRUE
    /\ lastMove = NoMove
    /\ mv = NoRun
    /\ prevDraw = <<>>
    /\ eng = NoEngine
    /\ sc = <<>>
    /\ CamIdle
    /\ CoIdle
    /\ AuxIdle

drawRest == <<idx, inLoad, frame, cnt, log, updated, fresh, requested, deferred, paused, events,
              touched, contact, pressed, quiet, lastMove, mv, eng, sc, camVars, coVars,
              auxVars>>

\* Scene.update, line 142, or the update_list call of Scene.on_load
Draw_update_list ==
    /\ pc = "begin"
    /\ LET W == update_list(World(el, ent))
       IN  /\ el' = W.el
           /\ ent' = W.ent
           /\ pc' = IF W.raised THEN "crashed" ELSE "update"
    /\ prevDraw' = el.entity_draw_list
    /\ lastOp' = NoOp
    /\ UNCHANGED <<nops, drawn, drawRest>>

\* what the update() of the frame asks of the list
Draw_script ==
    /\ pc = "update"
    /\ \/ /\ nops < MaxOps
          /\ \E e \in Bodies :
                \/ /\ el' = add(World(el, ent), e).el
                   /\ lastOp' = <<"add", e>>
                   /\ ent' = ent
                \/ /\ ent[e].scene
                   /\ el' = destroy(World(el, ent), e).el
                   /\ lastOp' = <<"destroy", e>>
                   /\ ent' = ent
                \/ \E v \in Zs \ {ent[e].z} :
                      LET W == z_setter(World(el, ent), e, v)
                      IN  /\ el' = W.el
                          /\ ent' = W.ent
                          /\ lastOp' = <<"z", e>>
          /\ nops' = nops + 1
       \/ /\ lastOp' = NoOp
          /\ UNCHANGED <<el, ent, nops>>
    /\ pc' = "draw"
    /\ UNCHANGED <<drawn, prevDraw, drawRest>>

\* EntityList.draw for a camera that can draw every entity
Draw_draw ==
    /\ pc = "draw"
    /\ drawn' = SelectSeq(el.entity_draw_list, LAMBDA e : ent[e].active)
    /\ pc' = "begin"
    /\ lastOp' = NoOp
    /\ UNCHANGED <<el, ent, nops, prevDraw, drawRest>>

NextDraw ==
    \/ Draw_update_list
    \/ Draw_script
    \/ Draw_draw

SpecDraw == InitDraw /\ [][NextDraw]_vars

\* ============================================================ the engine loop
\* Engine.start (engine.py 211-262) looping over scenes that each own an
\* EntityList; no coroutine is started and no camera is added or removed, so
\* update_coroutines() and CameraList.update_list() change nothing here.
NumScenes == 3
MaxLoops == 4

Scenes == 1..NumScenes

\* the calls of the running loop iteration, in order: <<step, scene, entity>>
Step(k, s, e) == <<k, s, e>>

\* a load_scene that swaps the scene pointer at once
load_scene_now(E, value) ==
    [E EXCEPT !.scene = value, !.next_scene = value, !.requests = Append(@, value)]

\* Engine.load_scene (engine.py 135-137), and the history of the request
load_scene(E, value) ==
    [E EXCEPT !.next_scene = value, !.requests = Append(@, value)]

\* the statements of one iteration of `while cls._running` (engine.py 240-255,
\* with Engine.update 275-280 and Scene.update 140-144 inlined), by successor
EngineNext(p) ==
    CASE p = "events"      -> "update_list"
      [] p = "update_list" -> "pre"
      [] p = "pre"         -> "update"
      [] p = "update"      -> "post"
      [] p = "post"        -> "coroutines"
      [] p = "coroutines"  -> "draw"
      [] p = "draw"        -> "transition"
      [] p = "transition"  -> "counters"
      [] p = "counters"    -> "events"

SceneWorld(s) == CollWorld(sc[s].el, sc[s].ent, <<>>)

\* the entities a bookkeeping loop of EntityList.update visits without skipping
\* (entity_list.py 197-201, 210-214)
Covered(s) ==
    SelectSeq(sc[s].el.entity_list, LAMBDA e : ~(sc[s].paused /\ sc[s].ent[e].pausable))

StepsOf(k, s, L) == [i \in 1..Len(L) |-> Step(k, s, L[i])]

\* EntityList.end (entity_list.py 230-237) with the default callbacks
EntityList_end(s) ==
    StepsOf("on_deactivate", s, active_entities(SceneWorld(s)))
        \o StepsOf("end", s, sc[s].el.entity_list)

\* Scene.on_load (scene.py 126-134) of a scene whose load_entities() adds its
\* entities, followed by Scene.start (136-138)
Scene_on_load(s) ==
    LET W == AddFirst(SceneWorld(s), 1, NumEntities)
    IN  update_list([W EXCEPT !.el = flag_entity_draw_list_needs_sorting(@)])

LoadSteps(s) ==
    <<Step("on_load", s, 0), Step("cameras.update_list", s, 0),
      Step("entities.update_list", s, 0), Step("start", s, 0)>>

\* Engine._transition_scene (engine.py 366-378): the calls it makes
TransitionSteps(old, new) ==
    (IF old # 0 THEN EntityList_end(old) \o <<Step("scene.end", old, 0)>> ELSE <<>>)
        \o <<Step("swap", new, 0)>>
        \o (IF new # 0 THEN LoadSteps(new) ELSE <<>>)

\* Engine.start(first_scene): init, then load_scene(first_scene)
InitEngine ==
    /\ \E first \in Scenes : eng = [NoEngine EXCEPT !.next_scene = first]
    /\ \E pz \in [Entities -> BOOLEAN] :
         sc = [s \in Scenes |->
                 [el |-> NewEntityList,
                  ent |-> [e \in Entities |->
                             [NewEntity(BodyNames[e]) EXCEPT !.pausable = pz[e]]],
                  frame |-> 0,
                  paused |-> FALSE]]
    /\ el = NewEntityList
    /\ ent = [e \in Entities |-> NewEntity("a")]
    /\ pc = "events"
    /\ idx = 0
    /\ inLoad = FALSE
    /\ frame = 0
    /\ nops = 0
    /\ cnt = [e \in Entities |-> NoCounts]
    /\ log = <<>>
    /\ updated = <<>>
    /\ drawn = <<>>
    /\ fresh = {}
    /\ requested = {}
    /\ lastOp = NoOp
    /\ deferred = {}
    /\ paused = FALSE
    /\ events = <<>>
    /\ touched = {}
    /\ contact = {}
    /\ pressed = {}
    /\ quiet = TRUE
    /\ lastMove = NoMove
    /\ mv = NoRun
    /\ prevDraw = <<>>
    /\ CamIdle
    /\ CoIdle
    /\ AuxIdle

engRest == <<el, ent, inLoad, frame, cnt, updated, drawn, fresh, requested, lastOp, deferred,
             paused, events, touched, contact, pressed, quiet, lastMove, mv, prevDraw,
             camVars, coVars, auxVars>>

\* engine.py 241-244: Window, Time, InputManager, EventManager
Engine_events ==
    /\ pc = "events"
    /\ log' = <<Step("events", 0, 0)>>
    /\ eng' = [eng EXCEPT !.start_scene = eng.scene, !.requests = <<>>]
    /\ pc' = EngineNext(pc)
    /\ UNCHANGED <<sc, idx, nops, engRest>>

\* Scene.update, scene.py 142-143 (under engine.py 275 `if cls._scene`)
Scene_update_lists ==
    /\ pc = "update_list"
    /\ IF eng.scene = 0 THEN UNCHANGED <<sc, log>>
       ELSE LET s == eng.scene
                W == update_list(SceneWorld(s))
            IN  /\ sc' = [sc EXCEPT ![s].el = W.el, ![s].ent = W.ent]
                /\ log' = log \o <<Step("cameras.update_list", s, 0),
                                   Step("entities.update_list", s, 0)>>
    /\ pc' = EngineNext(pc)
    /\ UNCHANGED <<eng, idx, nops, engRest>>

\* EntityList.update, first loop (entity_list.py 197-201)
EntityList_update_pre ==
    /\ pc = "pre"
    /\ IF eng.scene = 0 THEN UNCHANGED <<sc, log>>
       ELSE LET s == eng.scene
            IN  /\ sc' = [sc EXCEPT ![s].ent = PreUpdateAll(SceneWorld(s), sc[s].paused, 1).ent]
                /\ log' = log \o StepsOf("pre", s, Covered(s))
    /\ idx' = 0
    /\ pc' = EngineNext(pc)
    /\ UNCHANGED <<eng, nops, engRest>>

EngineOps == {"idle", "load_scene", "deactivate", "pause"}

\* EntityList.update, second loop (203-207): one entity of active_entities();
\* its update() may call Engine.load_scene, clear its own active flag or toggle
\* scene.paused
EntityList_update_entity ==
    /\ pc = "update"
    /\ eng.scene # 0
    /\ LET s == eng.scene
           L == active_entities(SceneWorld(s))
       IN  /\ idx < Len(L)
           /\ LET e == L[idx + 1]
              IN  IF sc[s].paused /\ sc[s].ent[e].pausable
                  THEN UNCHANGED <<sc, eng, log, nops>>
                  ELSE /\ log' = Append(log, Step("update", s, e))
                       /\ \E op \in EngineOps, t \in Scenes :
                            CASE op = "idle" ->
                                   /\ t = 1
                                   /\ UNCHANGED <<sc, eng, nops>>
                              [] op = "load_scene" ->
                                   /\ nops < MaxOps
                                   /\ eng' = load_scene(eng, t)
                                   /\ nops' = nops + 1
                                   /\ UNCHANGED sc
                              [] op = "deactivate" ->
                                   /\ t = 1
                                   /\ nops < MaxOps
                                   /\ LET W == active_setter(SceneWorld(s), e, FALSE)
                                      IN  sc' = [sc EXCEPT ![s].el = W.el, ![s].ent = W.ent]
                                   /\ nops' = nops + 1
                                   /\ UNCHANGED eng
                              [] op = "pause" ->
                                   /\ t = 1
                                   /\ nops < MaxOps
                                   /\ sc' = [sc EXCEPT ![s].paused = ~@]
                                   /\ nops' = nops + 1
                                   /\ UNCHANGED eng
    /\ idx' = idx + 1
    /\ UNCHANGED <<pc, engRest>>

\* the second loop is exhausted (or there is no scene)
EntityList_update_done ==
    /\ pc = "update"
    /\ eng.scene # 0 => idx >= Len(active_entities(SceneWorld(eng.scene)))
    /\ pc' = EngineNext(pc)
    /\ UNCHANGED <<eng, sc, log, idx, nops, engRest>>

\* EntityList.update, third loop (210-214)
EntityList_update_post ==
    /\ pc = "post"
    /\ IF eng.scene = 0 THEN UNCHANGED <<sc, log>>
       ELSE LET s == eng.scene
            IN  /\ sc' = [sc EXCEPT ![s].ent = PostUpdateAll(SceneWorld(s), sc[s].paused, 1).ent]
                /\ log' = log \o StepsOf("post", s, Covered(s))
    /\ pc' = EngineNext(pc)
    /\ UNCHANGED <<eng, idx, nops, engRest>>

\* Engine.update, line 278: update_coroutines() with no coroutine started
Engine_update_coroutines ==
    /\ pc = "coroutines"
    /\ log' = Append(log, Step("coroutines", 0, 0))
    /\ pc' = EngineNext(pc)
    /\ UNCHANGED <<eng, sc, idx, nops, engRest>>

\* Engine.draw (engine.py 283-322): the scene, if any, draws its cameras
Engine_draw ==
    /\ pc = "draw"
    /\ log' = Append(log, Step("draw", eng.scene, 0))
    /\ pc' = EngineNext(pc)
    /\ UNCHANGED <<eng, sc, idx, nops, engRest>>

\* engine.py 250-251 with Engine._transition_scene (366-378)
Engine_transition ==
    /\ pc = "transition"
    /\ IF eng.scene # eng.next_scene
       THEN LET new == eng.next_scene
            IN  /\ log' = log \o <<Step("check", 0, 0)>> \o TransitionSteps(eng.scene, new)
                /\ eng' = [eng EXCEPT !.scene = new]
                /\ IF new = 0 THEN UNCHANGED sc
                   ELSE LET W == Scene_on_load(new)
                        IN  sc' = [sc EXCEPT ![new].el = W.el, ![new].ent = W.ent]
       ELSE /\ log' = Append(log, Step("check", 0, 0))
            /\ UNCHANGED <<eng, sc>>
    /\ pc' = EngineNext(pc)
    /\ UNCHANGED <<idx, nops, engRest>>

\* Engine._update_frame_counters (381-386); the run is cut after MaxLoops
Engine_counters ==
    /\ pc = "counters"
    /\ log' = Append(log, Step("counters", 0, 0))
    /\ eng' = [eng EXCEPT !.frame = @ + 1]
    /\ IF eng.scene = 0 THEN UNCHANGED sc
       ELSE sc' = [sc EXCEPT ![eng.scene].frame = @ + 1]
    /\ pc' = IF eng.frame + 1 < MaxLoops THEN EngineNext(pc) ELSE "stopped"
    /\ UNCHANGED <<idx, nops, engRest>>

NextEngine ==
    \/ Engine_events
    \/ Scene_update_lists
    \/ EntityList_update_pre
    \/ EntityList_update_entity
    \/ EntityList_update_done
    \/ EntityList_update_post
    \/ Engine_update_coroutines
    \/ Engine_draw
    \/ Engine_transition
    \/ Engine_counters

SpecEngine == InitEngine /\ [][NextEngine]_vars

\* the variables of the specifications above, at rest
baseVars == <<el, ent, inLoad, frame, cnt, log, updated, drawn, fresh, requested, lastOp,
              deferred, paused, events, touched, contact, pressed, quiet, lastMove, mv,
              prevDraw, eng, sc>>

BaseIdle ==
    /\ el = NewEntityList
    /\ ent = [e \in Entities |-> NewEntity("a")]
    /\ inLoad = FALSE
    /\ frame = 0
    /\ cnt = [e \in Entities |-> NoCounts]
    /\ log = <<>>
    /\ updated = <<>>
    /\ drawn = <<>>
    /\ fresh = {}
    /\ requested = {}
    /\ lastOp = NoOp
    /\ deferred = {}
    /\ paused = FALSE
    /\ events = <<>>
    /\ touched = {}
    /\ contact = {}
    /\ pressed = {}
    /\ quiet = TRUE
    /\ lastMove = NoMove
    /\ mv = NoRun
    /\ prevDraw = <<>>
    /\ eng = NoEngine
    /\ sc = <<>>

\* =========================================================== the camera list
\* A Scene's CameraList (camera_list.py) with the two default cameras and one
\* camera of the game; the game adds, removes and reorders cameras between the
\* update_list calls of the loop.
NumCameras == 3
MaxCamOps == 5

Cameras == 1..NumCameras
CamNames == {"Main", "UI", "Extra"}
CamOrders == {0, -1000, 7}

\* Camera.__init__ (camera.py 49-52)
NewCamera(name, draw_order) == [name |-> name, draw_order |-> draw_order, scene |-> FALSE]

\* CameraList.__init__ (camera_list.py 11-25)
NewCameraList ==
    [ camera_list |-> <<>>,
      camera_map |-> EmptyDict,
      needs_sorting |-> FALSE,
      to_add |-> <<>>,
      to_remove |-> <<>>,
      current |-> {},
      adding |-> {},
      removing |-> {} ]

CamWorld(l, n) == [cl |-> l, cam |-> n, raised |-> FALSE]

\* _validate_name and _validate_draw_order (lines 59-69): TRUE when one raises
validate_raises(C, c) ==
    \E i \in 1..Len(C.cl.camera_list \o C.cl.to_add) :
        LET x == (C.cl.camera_list \o C.cl.to_add)[i]
        IN  C.cam[c].name = C.cam[x].name \/ C.cam[c].draw_order = C.cam[x].draw_order

\* CameraList.add (lines 49-57)
camera_add(C, c) ==
    IF validate_raises(C, c) THEN [C EXCEPT !.raised = TRUE]
    ELSE IF c \notin C.cl.current /\ c \notin C.cl.adding
    THEN [C EXCEPT !.cl.to_add = Append(@, c),
                   !.cl.adding = @ \cup {c},
                   !.cl.needs_sorting = TRUE]
    ELSE C

\* CameraList.remove (lines 71-75)
camera_remove(C, c) ==
    IF c \in C.cl.current /\ c \notin C.cl.removing
    THEN [C EXCEPT !.cl.to_remove = Append(@, c), !.cl.removing = @ \cup {c}]
    ELSE C

\* Camera.draw_order setter (camera.py 205-213): the loop over scene.cameras
\* from position i on
RECURSIVE draw_order_loop(_, _, _, _)
draw_order_loop(C, c, value, i) ==
    IF i > Len(C.cl.camera_list) THEN [C EXCEPT !.cam[c].draw_order = value]
    ELSE IF C.cam[C.cl.camera_list[i]].draw_order = value THEN C
    ELSE draw_order_loop([C EXCEPT !.cl.needs_sorting = TRUE], c, value, i + 1)

draw_order_setter(C, c, value) ==
    IF C.cam[c].scene THEN draw_order_loop(C, c, value, 1)
    ELSE [C EXCEPT !.cam[c].draw_order = value]

\* CameraList.sort (lines 117-120)
camera_sort(L, n) ==
    [L EXCEPT !.camera_list = SortedByZ(@, [c \in DOMAIN n |-> [z |-> n[c].draw_order]]),
              !.needs_sorting = FALSE]

\* CameraList.update_list (lines 85-115), Camera.start being the default
camera_update_list(C) ==
    LET L == C.cl
        added == L.camera_list \o L.to_add
        RECURSIVE Without(_, _)
        Without(s, i) == IF i > Len(L.to_remove) THEN s
                         ELSE Without(ListRemove(s, L.to_remove[i]), i + 1)
        RECURSIVE PopAll(_, _)
        PopAll(m, i) == IF i > Len(L.to_remove) THEN m
                        ELSE PopAll(DictPop(m, C.cam[L.to_remove[i]].name), i + 1)
        RECURSIVE SetAll(_, _)
        SetAll(m, i) == IF i > Len(L.to_add) THEN m
                        ELSE SetAll(DictSet(m, C.cam[L.to_add[i]].name, L.to_add[i]), i + 1)
        n1 == [c \in DOMAIN C.cam |->
                 IF SeqHas(L.to_remove, c) THEN [C.cam[c] EXCEPT !.scene = FALSE]
                 ELSE IF SeqHas(L.to_add, c) THEN [C.cam[c] EXCEPT !.scene = TRUE]
                 ELSE C.cam[c]]
        L1 == [L EXCEPT !.camera_list = Without(added, 1),
                        !.camera_map = PopAll(SetAll(@, 1), 1),
                        !.current = (@ \cup Range(L.to_add)) \ Range(L.to_remove)]
        L2 == IF L1.needs_sorting THEN camera_sort(L1, n1) ELSE L1
    IN  [C EXCEPT !.cl = [L2 EXCEPT !.to_add = <<>>, !.adding = {},
                                    !.to_remove = <<>>, !.removing = {}],
                  !.cam = n1]

NoCamOp == [op |-> "none", c |-> 0, clash |-> FALSE, raised |-> FALSE, before |-> NewCameraList]

\* the cameras of the list, live or queued, other than c that share c's name
\* or draw order
Clashes(c) ==
    {d \in (Range(cameras.camera_list) \cup Range(cameras.to_add)) \ {c} :
        cam[d].name = cam[c].name \/ cam[d].draw_order = cam[c].draw_order}

\* Scene.__init__ (scene.py 15-26): the list with the default cameras queued
\* (_init_default_cameras, 83-93); the game has constructed its own cameras
InitCam ==
    /\ \E nm \in [Cameras \ {1, 2} -> CamNames], ord \in [Cameras \ {1, 2} -> CamOrders] :
         cam = [c \in Cameras |->
                  IF c = 1 THEN NewCamera("Main", 0)
                  ELSE IF c = 2 THEN NewCamera("UI", -1000)
                  ELSE NewCamera(nm[c], ord[c])]
    /\ cameras = camera_add(camera_add(CamWorld(NewCameraList, cam), 1), 2).cl
    /\ camOp = NoCamOp
    /\ pc = "play"
    /\ idx = 0
    /\ nops = 0
    /\ BaseIdle
    /\ CoIdle
    /\ AuxIdle

camRest == <<pc, idx, baseVars, coVars, auxVars>>

CameraList_add ==
    \E c \in Cameras :
        /\ nops < MaxCamOps
        /\ LET C == camera_add(CamWorld(cameras, cam), c)
           IN  /\ cameras' = C.cl
               /\ camOp' = [op |-> "add", c |-> c, clash |-> Clashes(c) # {},
                            raised |-> C.raised, before |-> cameras]
        /\ nops' = nops + 1
        /\ UNCHANGED <<cam, camRest>>

CameraList_remove ==
    \E c \in Cameras :
        /\ nops < MaxCamOps
        /\ cameras' = camera_remove(CamWorld(cameras, cam), c).cl
        /\ camOp' = [NoCamOp EXCEPT !.op = "remove", !.c = c]
        /\ nops' = nops + 1
        /\ UNCHANGED <<cam, camRest>>

Camera_set_draw_order ==
    \E c \in Cameras, value \in CamOrders :
        /\ nops < MaxCamOps
        /\ LET C == draw_order_setter(CamWorld(cameras, cam), c, value)
           IN  /\ cameras' = C.cl
               /\ cam' = C.cam
        /\ camOp' = [NoCamOp EXCEPT !.op = "draw_order", !.c = c]
        /\ nops' = nops + 1
        /\ UNCHANGED camRest

\* Scene.on_load / Scene.update: cameras.update_list()
CameraList_update_list ==
    /\ cameras.to_add # <<>> \/ cameras.to_remove # <<>> \/ cameras.needs_sorting
    /\ LET C == camera_update_list(CamWorld(cameras, cam))
       IN  /\ cameras' = C.cl
           /\ cam' = C.cam
    /\ camOp' = [NoCamOp EXCEPT !.op = "update_list"]
    /\ UNCHANGED <<nops, camRest>>

NextCam ==
    \/ CameraList_add
    \/ CameraList_remove
    \/ Camera_set_draw_order
    \/ CameraList_update_list

SpecCam == InitCam /\ [][NextCam]_vars

\* ====================================================== the coroutine driver
\* coroutine.py: the module lists _coroutines and _stop, start_coroutine and
\* stop_coroutine called from update() of entities and from running
\* coroutines, and update_coroutines() once per frame (engine.py 278).
NumCoroutines == 3
MaxPasses == 3
MaxCoOps == 3

Coroutines == 1..NumCoroutines

\* the yields a generator has left before it returns
Yields == {0, 1}

NewDriver == [coroutines |-> <<>>, stop |-> <<>>, remove |-> <<>>]

\* history of the driver: passes begun, resumes per coroutine in the running pass, whether
\* the pass has completed, the coroutines on the list when it completed, those
\* whose stop_coroutine returned, those resumed after that, those that
\* returned, those resumed after that
NoCoHist == [pass |-> 0, resumed |-> [c \in Coroutines |-> 0], complete |-> FALSE,
             members |-> {},
             stopped |-> {}, afterStop |-> {}, finished |-> {}, afterEnd |-> {}]

\* start_coroutine (coroutine.py 16-27), c being a generator
start_coroutine(D, c) == [D EXCEPT !.coroutines = Append(@, c)]

\* stop_coroutine (30-44), c being a generator
stop_coroutine(D, c) ==
    IF ~SeqHas(D.coroutines, c) THEN D
    ELSE [D EXCEPT !.stop = Append(@, c)]

\* update_coroutines, lines 56-58: `for c in _stop: _coroutines.remove(c)`
\* from position i on; list.remove raises ValueError for a missing item
RECURSIVE StopLoop(_, _)
StopLoop(D, i) ==
    IF i > Len(D.d.stop) THEN D
    ELSE IF ~SeqHas(D.d.coroutines, D.d.stop[i]) THEN [D EXCEPT !.raised = TRUE]
    ELSE StopLoop([D EXCEPT !.d.coroutines = ListRemove(@, D.d.stop[i])], i + 1)

\* update_coroutines, lines 69-70: `for c in remove[:]: _coroutines.remove(c)`
RECURSIVE RemoveLoop(_, _)
RemoveLoop(D, i) ==
    IF i > Len(D.remove) THEN D
    ELSE RemoveLoop([D EXCEPT !.coroutines = ListRemove(@, D.remove[i])], i + 1)

\* the calls a caller can make: none, start_coroutine(d), stop_coroutine(d)
CoCalls == {"none", "start", "stop"}

CoCall(D, op, d) ==
    CASE op = "none" -> D
      [] op = "start" -> start_coroutine(D, d)
      [] op = "stop" -> stop_coroutine(D, d)

\* the history of a call: a start makes d a started coroutine again, a stop
\* that is accepted marks d as stopped
HistCall(H, D, op, d) ==
    CASE op = "none" -> H
      [] op = "start" -> [H EXCEPT !.stopped = @ \ {d}, !.finished = @ \ {d}]
      [] op = "stop" -> IF SeqHas(D.coroutines, d) THEN [H EXCEPT !.stopped = @ \cup {d}] ELSE H

InitCo ==
    /\ co = NewDriver
    /\ \E y \in [Coroutines -> Yields] :
         gen = [c \in Coroutines |-> [done |-> FALSE, left |-> y[c]]]
    /\ coHist = NoCoHist
    /\ pc = "update"
    /\ idx = 0
    /\ nops = 0
    /\ BaseIdle
    /\ CamIdle
    /\ AuxIdle

coRest == <<baseVars, camVars, auxVars>>

\* Entity.update() calling start_coroutine or stop_coroutine
Entity_update_coroutine_call ==
    /\ pc = "update"
    /\ nops < MaxCoOps
    /\ \E op \in CoCalls \ {"none"}, d \in Coroutines :
         /\ co' = CoCall(co, op, d)
         /\ coHist' = HistCall(coHist, co, op, d)
    /\ nops' = nops + 1
    /\ UNCHANGED <<pc, idx, gen, coRest>>

\* update_coroutines, lines 52-61: the early return, the stop loop, the clear
update_coroutines_begin ==
    /\ pc = "update"
    /\ coHist.pass < MaxPasses
    /\ IF co.coroutines = <<>>
       THEN /\ UNCHANGED co
            /\ pc' = "update"
            /\ coHist' = [coHist EXCEPT !.pass = @ + 1,
                                        !.resumed = [c \in Coroutines |-> 0],
                                        !.complete = TRUE, !.members = {}]
       ELSE LET D == StopLoop([d |-> co, raised |-> FALSE], 1)
            IN  /\ co' = IF D.raised THEN D.d ELSE [D.d EXCEPT !.stop = <<>>, !.remove = <<>>]
                /\ pc' = IF D.raised THEN "crashed" ELSE "run"
                /\ coHist' = [coHist EXCEPT !.pass = @ + 1,
                                            !.resumed = [c \in Coroutines |-> 0],
                                            !.complete = FALSE, !.members = {}]
    /\ idx' = 0
    /\ UNCHANGED <<nops, gen, coRest>>

\* update_coroutines, lines 64-68: one turn of `for c in _coroutines`; next(c)
\* runs the generator to its next yield or to its return, and the code it
\* runs may call start_coroutine or stop_coroutine
update_coroutines_next ==
    /\ pc = "run"
    /\ idx < Len(co.coroutines)
    /\ LET c == co.coroutines[idx + 1]
           H == [coHist EXCEPT !.resumed[c] = @ + 1,
                               !.afterStop = IF c \in coHist.stopped THEN @ \cup {c} ELSE @,
                               !.afterEnd = IF c \in coHist.finished THEN @ \cup {c} ELSE @]
       IN  IF gen[c].done
           THEN /\ co' = [co EXCEPT !.remove = Append(@, c)]
                /\ coHist' = H
                /\ UNCHANGED <<gen, nops>>
           ELSE \E op \in CoCalls, d \in Coroutines :
                  /\ op = "none" => d = 1 /\ nops' = nops
                  /\ op # "none" => nops < MaxCoOps /\ nops' = nops + 1
                  /\ LET D == CoCall(co, op, d)
                         H1 == HistCall(H, co, op, d)
                     IN  IF gen[c].left = 0
                         THEN /\ gen' = [gen EXCEPT ![c].done = TRUE]
                              /\ co' = [D EXCEPT !.remove = Append(@, c)]
                              /\ coHist' = [H1 EXCEPT !.finished = @ \cup {c}]
                         ELSE /\ gen' = [gen EXCEPT ![c].left = @ - 1]
                              /\ co' = D
                              /\ coHist' = H1
    /\ idx' = idx + 1
    /\ UNCHANGED <<pc, coRest>>

\* update_coroutines, lines 69-70: the finished coroutines leave the list
update_coroutines_end ==
    /\ pc = "run"
    /\ idx >= Len(co.coroutines)
    /\ co' = [RemoveLoop(co, 1) EXCEPT !.remove = <<>>]
    /\ coHist' = [coHist EXCEPT !.complete = TRUE, !.members = Range(co.coroutines)]
    /\ pc' = "update"
    /\ UNCHANGED <<idx, nops, gen, coRest>>

NextCo ==
    \/ Entity_update_coroutine_call
    \/ update_coroutines_begin
    \/ update_coroutines_next
    \/ update_coroutines_end

SpecCo == InitCo /\ [][NextCo]_vars

\* ------------------------------------------- Camera render targets (camera.py)
\* One Camera, the Window viewport it is scaled to, and the sizes of its
\* textures.  A scale is a rational <<numerator, denominator>>; the camera
\* position is kept as its fractional part, in units of 1/Den pixel.
MaxView == 3
MaxRes == 2

ViewSizes == (1..MaxView) \X (1..MaxView)
ResizeModes == {"NONE", "WIDTH", "HEIGHT", "FIT", "FILL", "DISTORT"}
PassNames == {"Lighting", "Glow"}
CamFracs == {0, 9}

RatLess(p, q) == p[1] * q[2] < q[1] * p[2]

\* min(sx, sy) and max(sx, sy)
RatMin(p, q) == IF RatLess(q, p) THEN q ELSE p
RatMax(p, q) == IF RatLess(p, q) THEN q ELSE p

\* floor(q) of a positive rational, and int(n * q)
floor(q) == q[1] \div q[2]
int_times(n, q) == (n * q[1]) \div q[2]

\* Texture.create_target(2, 2): the size of a texture nobody has sized yet
Unsized == <<2, 2>>

\* Camera.__init__ up to line 95, for a window and a renderer of these sizes
Camera_init(view, res) ==
    [viewport |-> view,
     resolution |-> res,
     resize_mode |-> "FIT",
     pixel_perfect_scaling |-> TRUE,
     x |-> 0, y |-> 0,
     scale_x |-> <<1, 1>>, scale_y |-> <<1, 1>>,
     scaled_resolution |-> res,
     sub_pixel_offset_x |-> 0, sub_pixel_offset_y |-> 0,
     render_texture |-> Unsized,
     scaled_render_texture |-> Unsized,
     pass_texture |-> [p \in {"Default", "Debug"} |-> Unsized],
     started |-> FALSE,
     copied |-> FALSE]

\* lines 352-373: the match statement
mode_scale(mode, sx, sy) ==
    CASE mode = "NONE" -> <<<<1, 1>>, <<1, 1>>>>
      [] mode = "WIDTH" -> <<sx, sx>>
      [] mode = "HEIGHT" -> <<sy, sy>>
      [] mode = "FIT" -> <<RatMin(sx, sy), RatMin(sx, sy)>>
      [] mode = "FILL" -> <<RatMax(sx, sy), RatMax(sx, sy)>>
      [] mode = "DISTORT" -> <<sx, sy>>

\* lines 376-382 without the two if statements
pixel_perfect_floor(q) == <<floor(q), 1>>

\* lines 376-382
pixel_perfect_scale(q) == IF floor(q) < 1 THEN <<1, 1>> ELSE <<floor(q), 1>>

_reset_render_targets(c) ==
    LET sx == <<c.viewport[1], c.resolution[1]>>
        sy == <<c.viewport[2], c.resolution[2]>>
        s == mode_scale(c.resize_mode, sx, sy)
        scale_x == IF c.pixel_perfect_scaling THEN pixel_perfect_scale(s[1]) ELSE s[1]
        scale_y == IF c.pixel_perfect_scaling THEN pixel_perfect_scale(s[2]) ELSE s[2]
        \* line 397: "self._scale_x > 1 or self._scale_y"
        pad == (RatLess(<<1, 1>>, scale_x) \/ scale_y[1] # 0) /\ c.pixel_perfect_scaling
        w == IF pad THEN c.resolution[1] + 1 ELSE c.resolution[1]
        h == IF pad THEN c.resolution[2] + 1 ELSE c.resolution[2]
    IN  [c EXCEPT !.scale_x = scale_x,
                  !.scale_y = scale_y,
                  !.scaled_resolution = <<int_times(c.resolution[1], scale_x),
                                          int_times(c.resolution[2], scale_y)>>,
                  !.render_texture = <<w, h>>,
                  !.scaled_render_texture = <<int_times(w, scale_x), int_times(h, scale_y)>>,
                  !.pass_texture = [p \in DOMAIN @ |-> <<w, h>>]]

add_render_pass(c, name) ==
    IF name \in DOMAIN c.pass_texture THEN c
    ELSE [c EXCEPT !.pass_texture = [p \in DOMAIN @ \cup {name} |->
                                        IF p = name THEN Unsized ELSE @[p]]]

\* lines 516-525: the sub-pixel offsets of a copy
_copy_render_texture_to_viewport(c) ==
    IF (RatLess(<<1, 1>>, c.scale_x) \/ RatLess(<<1, 1>>, c.scale_y)) /\ c.pixel_perfect_scaling
    THEN [c EXCEPT !.sub_pixel_offset_x = (c.x * c.scale_x[1]) \div (Den * c.scale_x[2]),
                   !.sub_pixel_offset_y = (c.y * c.scale_y[1]) \div (Den * c.scale_y[2])]
    ELSE [c EXCEPT !.sub_pixel_offset_x = 0]

\* lines 527-532: the source rect of the copy
source_rect(c) ==
    Rect(c.sub_pixel_offset_x, c.sub_pixel_offset_y,
         c.scaled_resolution[1], c.scaled_resolution[2])

InitRender ==
    /\ \E view \in ViewSizes, res \in (1..MaxRes) \X (1..MaxRes) :
          rc = _reset_render_targets(Camera_init(view, res))
    /\ pc = "begin"
    /\ idx = 0
    /\ nops = 0
    /\ BaseIdle
    /\ CamIdle
    /\ CoIdle
    /\ MouseIdle
    /\ LevelIdle
    /\ QueueIdle

renderRest == <<pc, idx, nops, baseVars, camVars, coVars, ms, lv, rq>>

\* every call but draw leaves a state that is not the one a copy left
Called(c) == [c EXCEPT !.copied = FALSE]

\* the window is resized: the viewport-changed callback of line 102
Window_viewport_changed ==
    \E view \in ViewSizes :
        /\ view # rc.viewport
        /\ rc' = Called(_reset_render_targets([rc EXCEPT !.viewport = view]))
        /\ UNCHANGED renderRest

\* the renderer is reset or its resolution changes: lines 103-104
Renderer_reset ==
    /\ rc' = Called(_reset_render_targets(rc))
    /\ UNCHANGED renderRest

\* camera.resolution = value
Camera_set_resolution ==
    \E value \in (0..MaxRes) \X (0..MaxRes) :
        /\ rc' = IF value[1] < 1 \/ value[2] < 1 THEN Called(rc)
                 ELSE Called(_reset_render_targets([rc EXCEPT !.resolution = value]))
        /\ UNCHANGED renderRest

\* camera.set_resize_mode_none() ... set_resize_mode_distort()
Camera_set_resize_mode ==
    \E mode \in ResizeModes :
        /\ rc' = Called(_reset_render_targets([rc EXCEPT !.resize_mode = mode]))
        /\ UNCHANGED renderRest

\* camera.pixel_perfect_scaling = value
Camera_set_pixel_perfect_scaling ==
    \E value \in BOOLEAN :
        /\ rc' = IF value = rc.pixel_perfect_scaling THEN Called(rc)
                 ELSE Called(_reset_render_targets([rc EXCEPT !.pixel_perfect_scaling = value]))
        /\ UNCHANGED renderRest

\* camera.x = value
Camera_set_x ==
    \E value \in CamFracs :
        /\ rc' = Called([rc EXCEPT !.x = value])
        /\ UNCHANGED renderRest

\* camera.y = value
Camera_set_y ==
    \E value \in CamFracs :
        /\ rc' = Called([rc EXCEPT !.y = value])
        /\ UNCHANGED renderRest

\* camera.add_render_pass(RenderPass(name)), add_lighting_pass(), add_glow_pass()
Camera_add_render_pass ==
    \E name \in PassNames \cup {"Default"} :
        /\ rc' = Called(add_render_pass(rc, name))
        /\ UNCHANGED renderRest

\* Camera.start, run by the camera list just before the first update
Camera_start ==
    /\ ~rc.started
    /\ rc' = Called(_reset_render_targets([rc EXCEPT !.started = TRUE]))
    /\ UNCHANGED renderRest

\* Camera.draw of a started camera, lines 333-345
Camera_draw ==
    /\ rc.started
    /\ rc' = [_copy_render_texture_to_viewport(rc) EXCEPT !.copied = TRUE]
    /\ UNCHANGED renderRest

NextRender ==
    \/ Window_viewport_changed
    \/ Renderer_reset
    \/ Camera_set_resolution
    \/ Camera_set_resize_mode
    \/ Camera_set_pixel_perfect_scaling
    \/ Camera_set_x
    \/ Camera_set_y
    \/ Camera_add_render_pass
    \/ Camera_start
    \/ Camera_draw

SpecRender == InitRender /\ [][NextRender]_vars

\* ------------------------------ mouse hover (entity.py 373-413, camera.py 272-295)
\* One entity in a scene with one active camera.  The mouse is an input of each
\* frame: whether it is in the viewport and whether its world position through
\* the camera lies in the entity's box.
MaxMouseFrames == 3
MaxMouseOps == 3

Tags == {"a", "b"}

\* Entity.__init__ and Camera.__init__: the fields the hover check reads
NewHover(tags, pausable, enabled) ==
    [paused |-> FALSE,
     pausable |-> pausable,
     active |-> TRUE,
     queued |-> "none",
     mouse_collisions_enabled |-> enabled,
     tags |-> tags,
     include_tags |-> {}, include_tags_filter_set |-> FALSE,
     exclude_tags |-> {}, exclude_tags_filter_set |-> FALSE,
     mouse_this_frame |-> FALSE,
     mouse_last_frame |-> FALSE,
     in_viewport |-> FALSE,
     on |-> FALSE,
     frame |-> 1,
     calls |-> <<>>,
     posted |-> FALSE,
     hovered |-> FALSE,
     prev |-> FALSE]

\* the include filter asked before the exclude filter, an include match
\* letting the entity through
can_draw_entity_include_first(m) ==
    IF ~m.include_tags_filter_set /\ ~m.exclude_tags_filter_set THEN TRUE
    ELSE IF m.include_tags_filter_set /\ m.include_tags \cap m.tags # {} THEN TRUE
    ELSE IF m.exclude_tags_filter_set /\ m.exclude_tags \cap m.tags # {} THEN FALSE
    ELSE ~m.include_tags_filter_set

can_draw_entity(m) ==
    IF ~m.include_tags_filter_set /\ ~m.exclude_tags_filter_set THEN TRUE
    ELSE IF m.exclude_tags_filter_set /\ m.exclude_tags \cap m.tags # {} THEN FALSE
    ELSE IF m.include_tags_filter_set /\ m.include_tags \cap m.tags = {} THEN FALSE
    ELSE TRUE

_mouse_pre_update(m) ==
    [m EXCEPT !.mouse_last_frame = m.mouse_this_frame, !.mouse_this_frame = FALSE]

\* lines 400-405: the check against the one active camera
MouseCheck(m) ==
    IF m.active /\ m.mouse_collisions_enabled /\ m.in_viewport /\ can_draw_entity(m) /\ m.on
    THEN [m EXCEPT !.mouse_this_frame = TRUE]
    ELSE m

\* lines 408-413: the callback the if / elif chain picks
MouseCallback(m) ==
    IF m.mouse_this_frame /\ ~m.mouse_last_frame THEN <<"on_mouse_enter">>
    ELSE IF m.mouse_this_frame THEN <<"on_mouse_over">>
    ELSE IF ~m.mouse_this_frame /\ m.mouse_last_frame THEN <<"on_mouse_exit">>
    ELSE <<>>

\* with the history of the check: what the mouse was over when the method ran
\* (hovered) and when it ran the time before (prev)
_mouse_post_update(m) ==
    [MouseCheck(m) EXCEPT !.calls = m.calls \o MouseCallback(MouseCheck(m)),
                          !.posted = TRUE,
                          !.hovered = /\ m.active /\ m.mouse_collisions_enabled
                                      /\ m.in_viewport /\ can_draw_entity(m) /\ m.on,
                          !.prev = m.hovered]

InitMouse ==
    /\ \E tags \in SUBSET Tags, pausable \in BOOLEAN, enabled \in BOOLEAN :
          ms = NewHover(tags, pausable, enabled)
    /\ pc = "events"
    /\ idx = 0
    /\ nops = 0
    /\ BaseIdle
    /\ CamIdle
    /\ CoIdle
    /\ RenderIdle
    /\ LevelIdle
    /\ QueueIdle

mouseRest == <<idx, baseVars, camVars, coVars, rc, lv, rq>>

\* Engine events: the mouse has moved
Hover_events ==
    /\ pc = "events"
    /\ \E inside \in BOOLEAN, on \in BOOLEAN :
          ms' = [ms EXCEPT !.in_viewport = inside, !.on = on, !.calls = <<>>, !.posted = FALSE]
    /\ pc' = "begin"
    /\ UNCHANGED <<nops, mouseRest>>

\* Scene.update: update_list carries out the queued set_active / set_inactive
Hover_update_list ==
    /\ pc = "begin"
    /\ ms' = [ms EXCEPT !.active = IF ms.queued = "none" THEN @ ELSE ms.queued = "activate",
                        !.queued = "none"]
    /\ pc' = "pre"
    /\ UNCHANGED <<nops, mouseRest>>

\* EntityList.update, lines 197-201
Hover_pre_update ==
    /\ pc = "pre"
    /\ ms' = IF ms.paused /\ ms.pausable THEN ms ELSE _mouse_pre_update(ms)
    /\ pc' = "update"
    /\ UNCHANGED <<nops, mouseRest>>

\* scene.paused = value, from an update() of the second loop or, after the
\* update, from a coroutine
Scene_set_paused ==
    /\ pc \in {"update", "after"} /\ nops < MaxMouseOps
    /\ ms' = [ms EXCEPT !.paused = ~ms.paused]
    /\ nops' = nops + 1
    /\ UNCHANGED <<pc, mouseRest>>

\* entity.active = value from an update(): queued by the list, once a frame
Hover_set_active ==
    /\ pc = "update" /\ nops < MaxMouseOps /\ ms.queued = "none"
    /\ ms' = [ms EXCEPT !.queued = IF ms.active THEN "deactivate" ELSE "activate"]
    /\ nops' = nops + 1
    /\ UNCHANGED <<pc, mouseRest>>

\* entity.mouse_collisions_enabled = value
Hover_set_mouse_collisions_enabled ==
    /\ pc = "update" /\ nops < MaxMouseOps
    /\ ms' = [ms EXCEPT !.mouse_collisions_enabled = ~@]
    /\ nops' = nops + 1
    /\ UNCHANGED <<pc, mouseRest>>

Camera_include_tag ==
    \E tag \in Tags :
        /\ pc = "update" /\ nops < MaxMouseOps
        /\ ms' = [ms EXCEPT !.include_tags = @ \cup {tag}, !.include_tags_filter_set = TRUE]
        /\ nops' = nops + 1
        /\ UNCHANGED <<pc, mouseRest>>

Camera_clear_include_tags ==
    /\ pc = "update" /\ nops < MaxMouseOps
    /\ ms' = [ms EXCEPT !.include_tags = {}, !.include_tags_filter_set = FALSE]
    /\ nops' = nops + 1
    /\ UNCHANGED <<pc, mouseRest>>

Camera_exclude_tag ==
    \E tag \in Tags :
        /\ pc = "update" /\ nops < MaxMouseOps
        /\ ms' = [ms EXCEPT !.exclude_tags = @ \cup {tag}, !.exclude_tags_filter_set = TRUE]
        /\ nops' = nops + 1
        /\ UNCHANGED <<pc, mouseRest>>

Camera_clear_exclude_tags ==
    /\ pc = "update" /\ nops < MaxMouseOps
    /\ ms' = [ms EXCEPT !.exclude_tags = {}, !.exclude_tags_filter_set = FALSE]
    /\ nops' = nops + 1
    /\ UNCHANGED <<pc, mouseRest>>

\* EntityList.update, lines 210-214
Hover_post_update ==
    /\ pc = "update"
    /\ ms' = IF ms.paused /\ ms.pausable THEN ms ELSE _mouse_post_update(ms)
    /\ pc' = "after"
    /\ UNCHANGED <<nops, mouseRest>>

\* the engine goes on to the next frame
Hover_next_frame ==
    /\ pc = "after" /\ ms.frame < MaxMouseFrames
    /\ ms' = [ms EXCEPT !.frame = @ + 1]
    /\ pc' = "events"
    /\ UNCHANGED <<nops, mouseRest>>

NextMouse ==
    \/ Hover_events
    \/ Hover_update_list
    \/ Hover_pre_update
    \/ Scene_set_paused
    \/ Hover_set_active
    \/ Hover_set_mouse_collisions_enabled
    \/ Camera_include_tag
    \/ Camera_clear_include_tags
    \/ Camera_exclude_tag
    \/ Camera_clear_exclude_tags
    \/ Hover_post_update
    \/ Hover_next_frame

SpecMouse == InitMouse /\ [][NextMouse]_vars

\* ------------------------------------- levels (level.py 169-184, scene.py 111-124)
\* The levels of one scene and the entities of its list.  The entities are on
\* the scene's list under distinct names; Level._entities is a dict, kept as
\* the sequence of its <<key, entity>> items in insertion order.
NumLevels == 2
MaxLevelOps == 4

Levels == 1..NumLevels
LevelNames == {"a", "b", "c"}

dict_has(d, k) == \E i \in 1..Len(d) : d[i][1] = k
dict_get(d, k) == d[CHOOSE i \in 1..Len(d) : d[i][1] = k][2]
dict_set(d, k, v) ==
    IF dict_has(d, k) THEN [i \in 1..Len(d) |-> IF d[i][1] = k THEN <<k, v>> ELSE d[i]]
    ELSE Append(d, <<k, v>>)
dict_del(d, k) == SelectSeq(d, LAMBDA item : item[1] # k)

\* Level.__init__ and Scene.add_level for every level, entities not in a level
NewLevels(names) ==
    [name |-> names,
     level |-> [e \in Entities |-> 0],
     entities |-> [l \in Levels |-> <<>>],
     in_scene |-> [l \in Levels |-> TRUE],
     last |-> [op |-> "none", level |-> 0, entity |-> 0, had |-> 0]]

add_entity(v, l, e) ==
    IF v.level[e] # 0 THEN v
    ELSE [v EXCEPT !.level[e] = l,
                   !.entities[l] = dict_set(@, v.name[e], e)]

\* Level.remove_entity: the entity popped is the one stored under the name
remove_entity(v, l, e) ==
    IF dict_has(v.entities[l], v.name[e])
    THEN [v EXCEPT !.level[dict_get(v.entities[l], v.name[e])] = 0,
                   !.entities[l] = dict_del(@, v.name[e])]
    ELSE v

\* Scene.remove_level, lines 119-120: the loop over list(level.entities)
RECURSIVE RemoveAll(_, _, _, _)
RemoveAll(v, l, items, i) ==
    IF i > Len(items) THEN v
    ELSE RemoveAll(remove_entity(v, l, items[i][2]), l, items, i + 1)

remove_level(v, l) ==
    [RemoveAll(v, l, v.entities[l], 1) EXCEPT !.in_scene[l] = FALSE]

\* EntityList.rename through the name setter: refused if the name is taken
name_setter(v, e, value) ==
    IF value = v.name[e] THEN v
    ELSE IF \E o \in Entities : v.name[o] = value THEN v
    ELSE [v EXCEPT !.name[e] = value]

Called_level(v, op, l, e) ==
    [op |-> op, level |-> l, entity |-> e, had |-> IF e = 0 THEN 0 ELSE v.level[e]]

InitLevel ==
    /\ \E names \in [Entities -> LevelNames] :
          /\ \A e \in Entities, o \in Entities : names[e] = names[o] => e = o
          /\ lv = NewLevels(names)
    /\ pc = "begin"
    /\ idx = 0
    /\ nops = 0
    /\ BaseIdle
    /\ CamIdle
    /\ CoIdle
    /\ RenderIdle
    /\ MouseIdle
    /\ QueueIdle

levelRest == <<pc, idx, baseVars, camVars, coVars, rc, ms, rq>>

Level_add_entity ==
    \E l \in Levels, e \in Entities :
        /\ nops < MaxLevelOps
        /\ lv' = [add_entity(lv, l, e) EXCEPT !.last = Called_level(lv, "add_entity", l, e)]
        /\ nops' = nops + 1
        /\ UNCHANGED levelRest

Level_remove_entity ==
    \E l \in Levels, e \in Entities :
        /\ nops < MaxLevelOps
        /\ lv' = [remove_entity(lv, l, e) EXCEPT !.last = Called_level(lv, "remove_entity", l, e)]
        /\ nops' = nops + 1
        /\ UNCHANGED levelRest

\* entity.name = value
Entity_set_name ==
    \E e \in Entities, value \in LevelNames :
        /\ nops < MaxLevelOps
        /\ lv' = [name_setter(lv, e, value) EXCEPT !.last = Called_level(lv, "name", 0, e)]
        /\ nops' = nops + 1
        /\ UNCHANGED levelRest

Scene_add_level ==
    \E l \in Levels :
        /\ nops < MaxLevelOps
        /\ ~lv.in_scene[l]
        /\ lv' = [lv EXCEPT !.in_scene[l] = TRUE, !.last = Called_level(lv, "add_level", l, 0)]
        /\ nops' = nops + 1
        /\ UNCHANGED levelRest

Scene_remove_level ==
    \E l \in Levels :
        /\ nops < MaxLevelOps
        /\ lv' = [remove_level(lv, l) EXCEPT !.last = Called_level(lv, "remove_level", l, 0)]
        /\ nops' = nops + 1
        /\ UNCHANGED levelRest

NextLevel ==
    \/ Level_add_entity
    \/ Level_remove_entity
    \/ Entity_set_name
    \/ Scene_add_level
    \/ Scene_remove_level

SpecLevel == InitLevel /\ [][NextLevel]_vars

\* ===================================================================== claims
\* The engine loop has no recovery (engine.py 238-262): a raised exception ends
\* the run in pc = "crashed".  Claims about a later pass speak of the runs that
\* get there.

\* C1: a move_x(d) / move_y(d) of a whole number of pixels by an active,
\* collision-enabled entity moves it along that axis only, by at most |d|
\* pixels in the direction of d; at no position it passes or ends on does its
\* box overlap the box of an active, collision-enabled solid entity, and it
\* stops short of |d| only directly in front of such a box.
C1_Along(k) ==
    LET m == lastMove.mover
        dir == sign(lastMove.move)
    IN  IF lastMove.axis = "x"
        THEN Rect(lastMove.x + k * dir, lastMove.y, ent[m].width, ent[m].height)
        ELSE Rect(lastMove.x, lastMove.y + k * dir, ent[m].width, ent[m].height)

C1_Blockers ==
    {b \in Range(el.entity_list) \ {lastMove.mover} :
        ent[b].active /\ ent[b].collisions_enabled /\ ent[b].solid}

C1_Hit(k) == {b \in C1_Blockers : rect_intersects_rect(bbox(ent, b), C1_Along(k))}

C1_Travelled ==
    LET m == lastMove.mover
    IN  IF lastMove.axis = "x" THEN (ent[m].x - lastMove.x) * sign(lastMove.move)
        ELSE (ent[m].y - lastMove.y) * sign(lastMove.move)

C1_NoTunneling ==
    (lastMove.axis # "none" /\ ent[lastMove.mover].active
                            /\ ent[lastMove.mover].collisions_enabled) =>
        LET m == lastMove.mover
            n == lastMove.move * sign(lastMove.move)
        IN  /\ lastMove.axis = "x" => ent[m].y = lastMove.y
            /\ lastMove.axis = "y" => ent[m].x = lastMove.x
            /\ C1_Travelled \in 0..n
            /\ \A k \in 1..C1_Travelled : C1_Hit(k) = {}
            /\ C1_Travelled < n => C1_Hit(C1_Travelled + 1) # {}

\* a move of three pixels or more that went on for at least one pixel and was
\* stopped before its last pixel, with a second solid entity further along
C1_Witness ==
    /\ lastMove.axis # "none"
    /\ lastMove.move * sign(lastMove.move) >= 3
    /\ C1_Travelled >= 1
    /\ C1_Travelled + 1 < lastMove.move * sign(lastMove.move)
    /\ \E k \in (C1_Travelled + 2)..(lastMove.move * sign(lastMove.move)) :
           C1_Hit(k) \ C1_Hit(C1_Travelled + 1) # {}

\* C2: an entity that is new to the scene and is passed to add() by an update()
\* is not on the live list, has no scene and is not updated for the rest of that
\* update pass, and no awake()/start() runs during the pass; an entity such an
\* add() left queued is live exactly once and has had awake() and start() when
\* the next update_list() returns, and if it is active then, the update pass of
\* that next cycle updates it.
C2_SamePass ==
    \A e \in fresh : e \notin updated /\ ~SeqHas(el.entity_list, e) /\ ~ent[e].scene

C2_Step ==
    /\ pc = "update" => cnt' = cnt
    /\ (pc = "finish" /\ pc' = "update") =>
          \A e \in requested :
             /\ Count(el'.entity_list, e) = 1
             /\ Count(log, <<"awake", e>>) = 1
             /\ Count(log, <<"start", e>>) = 1
    /\ (pc = "update" /\ pc' = "draw") =>
          \A e \in requested : ent[e].active => e \in updated

C2_AddDuringUpdate == [](C2_SamePass) /\ [][C2_Step]_vars

C2_Witness == \E e \in requested : e \in updated /\ pc = "update" /\ cnt[e]["awake"] = 1

\* C3: while update_list() runs, an add() or remove() issued by a lifecycle
\* callback only appends the entity to the side list: the live list, the name
\* map and all four queues stay as they are.  When the pass ends the side lists
\* go through add()/remove() and are emptied: an added entity that is not live
\* is queued exactly once (unless a queued entity has its name), a removed
\* entity that is live is queued for removal exactly once.  The pass that
\* follows promotes each such added entity once (one awake(), one start(), one
\* place on the live list) and drops each such removed entity once (one end()).
C3_Step ==
    /\ (el.is_updating /\ lastOp'[1] = "add") =>
          el' = [el EXCEPT !.added_while_updating = Append(@, lastOp'[2])]
    /\ (el.is_updating /\ lastOp'[1] = "remove") =>
          el' = [el EXCEPT !.removed_while_updating = Append(@, lastOp'[2])]
    /\ (pc = "finish" /\ pc' # "finish") =>
          /\ \A t \in Range(el.added_while_updating) :
                \/ SeqHas(el'.entity_list, t)
                \/ Count(el'.to_add, t) = 1
                \/ \E u \in Range(el'.to_add) : u # t /\ ent[u].name = ent[t].name
          /\ \A t \in Range(el.removed_while_updating) :
                SeqHas(el'.entity_list, t) => Count(el'.to_remove, t) = 1
          /\ el'.added_while_updating = <<>>
          /\ el'.removed_while_updating = <<>>
          /\ ~el'.is_updating

C3_NextPass ==
    pc = "finish" =>
       /\ \A e \in deferred.adds :
             /\ Count(el.entity_list, e) = 1
             /\ Count(log, <<"awake", e>>) = 1
             /\ Count(log, <<"start", e>>) = 1
       /\ \A e \in deferred.removes :
             /\ ~SeqHas(el.entity_list, e)
             /\ Count(log, <<"end", e>>) = 1

C3_DeferredInPass == [](C3_NextPass) /\ [][C3_Step]_vars

C3_Witness == pc = "finish" /\ deferred.adds # {} /\ deferred.removes # {}

\* C4: no two live entities of the list have the same name.
C4_NameUnique ==
    \A i, j \in 1..Len(el.entity_list) :
       i # j => ent[el.entity_list[i]].name # ent[el.entity_list[j]].name

\* C5: over the frames of EntityList.update, an entity gets at most one
\* collision callback per other entity and frame; on_collision_begin comes
\* only on a frame that follows none of begin/stay for that pair, stay and
\* end only on a frame that follows one; and on a frame of an unpaused scene
\* in which nothing moved and nothing changed, every pair that had begin or
\* stay on the frame before and ended that frame in contact (overlapping, or
\* one stopped against the other) gets on_collision_stay.
C5_Calls(cb, a, b) == Count(events, <<cb, a, b>>)

C5_CollisionLifecycle ==
    pc = "begin" =>
        \A a \in Bodies, b \in Bodies :
            /\ C5_Calls("begin", a, b) + C5_Calls("stay", a, b) + C5_Calls("end", a, b) <= 1
            /\ C5_Calls("begin", a, b) = 1 => <<a, b>> \notin touched
            /\ C5_Calls("stay", a, b) + C5_Calls("end", a, b) = 1 => <<a, b>> \in touched
            /\ (quiet /\ <<a, b>> \in contact) => C5_Calls("stay", a, b) = 1

\* C6: when EntityList.update has run its last loop, b is in a's collisions of
\* the frame exactly when a is in b's.
C6_Symmetric ==
    pc = "begin" =>
        \A a \in Bodies, b \in Bodies :
            (b \in ent[a].collisions_this_frame) <=> (a \in ent[b].collisions_this_frame)

\* C7: at the end of the update_list() pass that processes a removal, the
\* entity is off the live list and the name map, inactive, and has received
\* on_deactivate() once and end() once; an entity that was removed (and not
\* added again) is neither updated nor drawn.
C7_DeferredDestroy ==
    /\ pc = "finish" =>
          \A e \in Range(el.to_remove) :
             /\ ~SeqHas(el.entity_list, e)
             /\ (ent[e].name \in DOMAIN el.entity_map => el.entity_map[ent[e].name] # e)
             /\ ~ent[e].active
             /\ Count(log, <<"on_deactivate", e>>) = 1
             /\ Count(log, <<"end", e>>) = 1
    /\ \A e \in Entities : ~ent[e].scene => ~SeqHas(drawn, e) /\ e \notin updated

\* C8: when a pass has run its loops, every entity it promoted has received
\* awake(), on_activate() and start() once each, in that order, and the
\* callbacks of the pass are grouped: awake, on_activate, start,
\* on_deactivate, end.
Rank(cb) ==
    CASE cb = "awake" -> 1
      [] cb = "on_activate" -> 2
      [] cb = "start" -> 3
      [] cb = "on_deactivate" -> 4
      [] cb = "end" -> 5

C8_LifecycleOrder ==
    pc = "finish" =>
       /\ \A e \in Range(el.to_add) :
             /\ Count(log, <<"awake", e>>) = 1
             /\ Count(log, <<"on_activate", e>>) = 1
             /\ Count(log, <<"start", e>>) = 1
             /\ IndexOf(log, <<"awake", e>>) < IndexOf(log, <<"on_activate", e>>)
             /\ IndexOf(log, <<"on_activate", e>>) < IndexOf(log, <<"start", e>>)
       /\ \A i, j \in 1..Len(log) : i < j => Rank(log[i][1]) <= Rank(log[j][1])

\* C9: awake() and start() run at most once per entity object.
C9_OnceEver == \A e \in Entities : cnt[e]["awake"] <= 1 /\ cnt[e]["start"] <= 1

\* C10: a removal request on an entity that is queued for adding or live does
\* not raise and is recorded; the resubmission at the end of a pass queues it;
\* update_list() does not raise, and the pass ends the entity with one end().
Lifecycled(L, e) ==
    SeqHas(L.to_add, e) \/ SeqHas(L.added_while_updating, e) \/ SeqHas(L.entity_list, e)

C10_Step ==
    /\ (lastOp'[1] \in {"remove", "destroy"} /\ Lifecycled(el, lastOp'[2])) =>
          /\ pc' # "crashed"
          /\ SeqHas(el'.to_remove, lastOp'[2]) \/ SeqHas(el'.removed_while_updating, lastOp'[2])
    /\ (pc = "finish" /\ pc' # "finish") =>
          \A t \in Range(el.removed_while_updating) :
             Lifecycled(el', t) => SeqHas(el'.to_remove, t)
    /\ pc = "begin" => pc' # "crashed"

C10_RemovalEnds ==
    /\ [][C10_Step]_vars
    /\ [](pc = "finish" =>
            \A e \in Range(el.to_remove) :
               ~SeqHas(el.entity_list, e) /\ Count(log, <<"end", e>>) = 1)

\* C11: when a solid entity lies on the path of a move_x / move_y call, the
\* entity stops on the last position before the first such entity, the
\* remainder of that axis is 0 when the call returns, and the position and the
\* remainder of the other axis are what they were.
C11_Steps == lastMove.move * sign(lastMove.move)

C11_Blocked == \E k \in 1..C11_Steps : C1_Hit(k) # {}

C11_FirstHit == CHOOSE k \in 1..C11_Steps : C1_Hit(k) # {} /\ \A j \in 1..(k - 1) : C1_Hit(j) = {}

C11_RemainderReset ==
    (lastMove.axis # "none" /\ C11_Blocked) =>
        LET m == lastMove.mover
        IN  IF lastMove.axis = "x"
            THEN /\ ent[m].x = lastMove.x + (C11_FirstHit - 1) * sign(lastMove.move)
                 /\ ent[m].xr = 0
                 /\ ent[m].y = lastMove.y /\ ent[m].yr = mv.yr
            ELSE /\ ent[m].y = lastMove.y + (C11_FirstHit - 1) * sign(lastMove.move)
                 /\ ent[m].yr = 0
                 /\ ent[m].x = lastMove.x /\ ent[m].xr = mv.xr

\* a blocked move_x whose divmod left a remainder, made while the other axis
\* had a remainder of its own
C11_Witness ==
    /\ lastMove.axis = "x" /\ C11_Blocked
    /\ C1_Travelled < C11_Steps
    /\ mv.xr # 0
    /\ mv.yr # 0
    /\ ent[1].xr = 0

\* C12: over a run of move_x calls none of which had a solid entity on its
\* path, x + xr is the starting x + xr plus the sum of the amounts, with
\* 0 <= xr < 1; and a run of k <= 5 calls move_x(0.3) from remainder 0 has
\* moved the entity by 0 pixels for k <= 3 and by 1 pixel for k = 4 and 5.
C12_Conserved ==
    (pc = "call" /\ ~mv.obstructed) =>
        /\ ent[1].x * Den + ent[1].xr = mv.origin + mv.total
        /\ ent[1].xr \in 0..(Den - 1)
        /\ mv.streak \in 1..3 => ent[1].x * Den = mv.origin
        /\ mv.streak \in 4..5 => ent[1].x * Den = mv.origin + Den

\* five calls move_x(0.3) in a row
C12_Witness == pc = "call" /\ ~mv.obstructed /\ mv.streak = 5

\* C13: when update_list() has returned, the draw list is in descending order
\* of z, and two entities of equal z that were on the draw list before the
\* pass are in the order they had there.
C13_Sorted ==
    pc = "update" =>
        LET dl == el.entity_draw_list
        IN  /\ \A i \in 1..Len(dl), j \in 1..Len(dl) :
                   i < j => ent[dl[i]].z >= ent[dl[j]].z
            /\ \A a \in Range(dl) \cap Range(prevDraw), b \in Range(dl) \cap Range(prevDraw) :
                   (ent[a].z = ent[b].z /\ IndexOf(prevDraw, a) < IndexOf(prevDraw, b))
                       => IndexOf(dl, a) < IndexOf(dl, b)

\* the z values along the draw list
C14_ZOrder == [i \in 1..Len(el.entity_draw_list) |-> ent[el.entity_draw_list[i]].z]

\* three live entities with z 5, -3 and 0 and nothing else on the draw list,
\* when update_list() has returned or the draw pass has run
C14_Given ==
    /\ pc \in {"update", "begin"} /\ lastOp = NoOp
    /\ Len(el.entity_list) = 3 /\ Len(el.entity_draw_list) = 3
    /\ {ent[e].z : e \in Range(el.entity_list)} = {5, -3, 0}
    /\ ~el.entity_draw_list_needs_sorting

C15_Step ==
    LET list == el.entity_list
        pausables == {e \in Range(list) : ent[e].pausable}
    IN  paused =>
          /\ (pc = "update" /\ idx < Len(list) /\ ent[list[idx + 1]].pausable)
                => UNCHANGED <<el, ent, paused, events>>
          /\ pc = "pre" =>
                \A e \in pausables :
                    /\ ent'[e].collisions_last_frame = ent[e].collisions_this_frame
                    /\ ent'[e].collisions_this_frame = {}
          /\ (pc = "update" /\ idx >= Len(list)) =>
                \A e \in pausables : \A o \in ent[e].collisions_last_frame :
                    Count(events', <<"stay", e, o>>) + Count(events', <<"end", e, o>>) = 1

C15_PausedBookkeeping == [][C15_Step]_vars

\* C16: in every iteration of the engine loop the steps run in the fixed
\* order events, CameraList.update_list, EntityList.update_list, collision
\* pre-update of every entity, update() of the active entities in insertion
\* order, collision post-update of every entity, coroutines, draw, transition
\* check, frame counters; EntityList.update_list runs once per frame for a
\* scene, before every update() and draw() of that scene in the frame.
C16_Rank(k) ==
    CASE k = "events" -> 1
      [] k = "cameras.update_list" -> 2
      [] k = "entities.update_list" -> 3
      [] k = "pre" -> 4
      [] k = "update" -> 5
      [] k = "post" -> 6
      [] k = "coroutines" -> 7
      [] k = "draw" -> 8
      [] k = "check" -> 9
      [] k = "counters" -> 10
      [] OTHER -> 0

\* the entries of the iteration proper: those up to the transition check, and
\* the closing frame counters (the calls of a transition lie in between)
C16_Main ==
    {i \in 1..Len(log) :
        \/ \A j \in 1..(i - 1) : log[j][1] # "check"
        \/ log[i][1] = "counters"}

C16_Seen(r) == \E i \in C16_Main : C16_Rank(log[i][1]) > r

C16_Has(k, s, e) == \E i \in C16_Main : log[i] = Step(k, s, e)

C16_Order ==
    LET s == eng.start_scene
    IN  /\ \A i, j \in C16_Main :
             i < j => /\ C16_Rank(log[i][1]) <= C16_Rank(log[j][1])
                      /\ C16_Rank(log[i][1]) = C16_Rank(log[j][1])
                            => /\ log[i][1] \in {"pre", "update", "post"}
                               /\ log[i][3] # log[j][3]
        \* no step is left out
        /\ \A r \in {1, 7, 8, 9} :
             C16_Seen(r) => \E i \in C16_Main : C16_Rank(log[i][1]) = r
        /\ s # 0 => \A r \in {2, 3} :
             C16_Seen(r) => \E i \in C16_Main : C16_Rank(log[i][1]) = r
        \* update() of the active entities, in insertion order
        /\ \A i, j \in C16_Main :
             (i < j /\ log[i][1] = "update" /\ log[j][1] = "update")
                => IndexOf(sc[s].el.entity_list, log[i][3])
                       < IndexOf(sc[s].el.entity_list, log[j][3])
        /\ \A i \in C16_Main :
             log[i][1] = "update" => log[i][2] = s /\ sc[s].ent[log[i][3]].active
        /\ (s # 0 /\ C16_Seen(5)) =>
             \A e \in Range(active_entities(SceneWorld(s))) :
                 ~sc[s].ent[e].pausable => C16_Has("update", s, e)
        \* update_list once per frame and scene, before update() and draw()
        /\ \A t \in Scenes :
             Cardinality({i \in 1..Len(log) : log[i] = Step("entities.update_list", t, 0)}) <= 1
        /\ \A j \in 1..Len(log) :
             (log[j][1] \in {"pre", "update", "post", "draw"} /\ log[j][2] # 0)
                => \E i \in 1..(j - 1) : log[i] = Step("entities.update_list", log[j][2], 0)
        /\ (s # 0 /\ C16_Seen(3)) => C16_Has("entities.update_list", s, 0)

\* both bookkeeping passes reach every entity of the list
C16_ForAll ==
    LET s == eng.start_scene
    IN  s # 0 =>
          /\ C16_Seen(4) => \A e \in Range(sc[s].el.entity_list) : C16_Has("pre", s, e)
          /\ C16_Seen(6) => \A e \in Range(sc[s].el.entity_list) : C16_Has("post", s, e)

C16_LoopOrder == C16_Order /\ C16_ForAll

\* C17: no two cameras that are live or queued in a scene's CameraList share
\* a name or a draw order, whatever add(), remove(), draw_order assignments
\* and update_list() calls were made; an add() of a camera that clashes with
\* one of the list raises and leaves the list and its queues as they were.
C17_Held == Range(cameras.camera_list) \cup Range(cameras.to_add)

C17_AddRaises == (camOp.op = "add" /\ camOp.clash) => (camOp.raised /\ cameras = camOp.before)

C17_NoClash ==
    \A c, d \in C17_Held :
        c # d => cam[c].name # cam[d].name /\ cam[c].draw_order # cam[d].draw_order

C17_Unique == C17_AddRaises /\ C17_NoClash

\* C18: when load_scene(S) is called in frame N with S other than the current
\* scene, the current scene completes frame N's update and draw; then, once,
\* every live entity of the old scene gets end() (an active one on_deactivate()
\* before it), the old scene's end() runs, the pointer is swapped, S.on_load()
\* and S.start() run; the old scene is not updated or drawn after that, S is
\* first updated in frame N+1, and of several requests in frame N the last one
\* is the scene loaded.
C18_At(k, s, e) == {i \in 1..Len(log) : log[i] = Step(k, s, e)}

C18_Once(k, s, e) == Cardinality(C18_At(k, s, e)) = 1

C18_Before(k1, s1, e1, k2, s2, e2) ==
    \A i \in C18_At(k1, s1, e1), j \in C18_At(k2, s2, e2) : i < j

C18_Transition ==
    LET old == eng.start_scene
        new == eng.scene
        last == eng.requests[Len(eng.requests)]
    IN  /\ pc \in {"update_list", "pre", "update", "post", "coroutines", "draw", "transition"}
             => /\ eng.scene = eng.start_scene
                /\ \A i \in 1..Len(log) :
                     log[i][1] \in {"pre", "update", "post", "draw"} => log[i][2] = old
        /\ pc = "counters" =>
             /\ eng.requests # <<>> => new = last
             /\ (eng.requests # <<>> /\ last # old) =>
                  /\ C18_Once("swap", new, 0)
                  \* frame N of the old scene is complete
                  /\ C18_Once("draw", old, 0)
                  /\ C18_Before("draw", old, 0, "swap", new, 0)
                  /\ \A i \in 1..Len(log) :
                       log[i][1] \in {"pre", "update", "post", "draw"}
                          => log[i][2] = old /\ \A j \in C18_At("check", 0, 0) : i < j
                  \* the old scene ends
                  /\ \A e \in Entities :
                       IF SeqHas(sc[old].el.entity_list, e)
                       THEN /\ C18_Once("end", old, e)
                            /\ C18_Before("end", old, e, "scene.end", old, 0)
                            /\ IF sc[old].ent[e].active
                               THEN /\ C18_Once("on_deactivate", old, e)
                                    /\ C18_Before("on_deactivate", old, e, "end", old, e)
                               ELSE C18_At("on_deactivate", old, e) = {}
                       ELSE C18_At("end", old, e) = {} /\ C18_At("on_deactivate", old, e) = {}
                  /\ C18_Once("scene.end", old, 0)
                  /\ C18_Before("check", 0, 0, "scene.end", old, 0)
                  /\ \A e \in Entities : C18_Before("check", 0, 0, "on_deactivate", old, e)
                  /\ C18_Before("scene.end", old, 0, "swap", new, 0)
                  \* the new scene is loaded, and only that one
                  /\ C18_Once("on_load", new, 0)
                  /\ C18_Once("start", new, 0)
                  /\ C18_Before("swap", new, 0, "on_load", new, 0)
                  /\ C18_Before("on_load", new, 0, "start", new, 0)
                  /\ \A t \in Scenes \ {new} :
                       C18_At("on_load", t, 0) = {} /\ C18_At("start", t, 0) = {}
                  /\ sc[new].el.entity_list # <<>>

\* a frame of a loaded scene in which two entities request two other scenes
C18_Witness ==
    /\ pc = "counters"
    /\ eng.start_scene # 0
    /\ Len(eng.requests) = 2
    /\ eng.requests[1] # eng.requests[2]
    /\ eng.start_scene \notin Range(eng.requests)
    /\ eng.scene = eng.requests[2]
    /\ \E i \in 1..Len(log) : log[i][1] = "swap"

\* C19: every running coroutine is advanced exactly once per
\* update_coroutines() call: in a pass none is resumed twice, and when the
\* pass has run none of the list was left out, be it started by an update()
\* of that frame or by another coroutine during the pass; a coroutine that has
\* finished is off the list after the pass and is not resumed again.
C19_OncePerPass ==
    /\ \A c \in Coroutines : coHist.resumed[c] <= 1
    /\ (coHist.complete /\ pc = "update") =>
         /\ \A c \in coHist.members : coHist.resumed[c] = 1
         /\ \A c \in coHist.finished : ~SeqHas(co.coroutines, c)
    /\ coHist.afterEnd = {}

\* C20: once stop_coroutine(c) has returned for a running coroutine c, c is
\* not resumed again, whether an update() or a coroutine earlier in the same
\* pass made the call.
C20_NoResumeAfterStop == coHist.afterStop = {}

\* C21: with pixel-perfect scaling enabled, for every viewport size, camera
\* resolution and resize mode, the scale factor of each axis is an integer
\* n >= 1 with n = max(1, floor(s)), s being the real-valued scale of the mode:
\* n = 1 when s < 1, and n <= s < n + 1 otherwise.
C21_Real ==
    mode_scale(rc.resize_mode, <<rc.viewport[1], rc.resolution[1]>>,
                               <<rc.viewport[2], rc.resolution[2]>>)

C21_IsMaxOneFloor(q, s) ==
    /\ q[2] = 1
    /\ q[1] >= 1
    /\ IF s[1] < s[2] THEN q[1] = 1
       ELSE q[1] * s[2] <= s[1] /\ s[1] < (q[1] + 1) * s[2]

C21_IntegerScale ==
    rc.pixel_perfect_scaling =>
        /\ C21_IsMaxOneFloor(rc.scale_x, C21_Real[1])
        /\ C21_IsMaxOneFloor(rc.scale_y, C21_Real[2])

\* one axis scaled by a fraction above 1 that is floored, the other by less
\* than 1 and clamped
C21_Witness ==
    /\ rc.pixel_perfect_scaling
    /\ C21_Real[1][1] > C21_Real[1][2] /\ C21_Real[1][1] % C21_Real[1][2] # 0
    /\ C21_Real[2][1] < C21_Real[2][2]
    /\ rc.scale_x[1] * C21_Real[1][2] < C21_Real[1][1]
    /\ rc.scale_y = <<1, 1>>

\* C22: at every copy of the scaled render texture to the viewport, the source
\* rect (sub_pixel_offset_x, sub_pixel_offset_y, scaled width, scaled height)
\* lies inside the scaled render texture; each offset is
\* floor(frac(position) * scale), within 0..scale-1, when pixel-perfect
\* upscaling applies, and both offsets are 0 when it does not.
C22_Upscaling ==
    /\ rc.pixel_perfect_scaling
    /\ (RatLess(<<1, 1>>, rc.scale_x) \/ RatLess(<<1, 1>>, rc.scale_y))

C22_Inside ==
    /\ source_rect(rc).x >= 0
    /\ source_rect(rc).y >= 0
    /\ source_rect(rc).x + source_rect(rc).width <= rc.scaled_render_texture[1]
    /\ source_rect(rc).y + source_rect(rc).height <= rc.scaled_render_texture[2]

C22_Offsets ==
    IF C22_Upscaling
    THEN /\ rc.sub_pixel_offset_x = (rc.x * rc.scale_x[1]) \div Den
         /\ rc.sub_pixel_offset_y = (rc.y * rc.scale_y[1]) \div Den
         /\ rc.sub_pixel_offset_x \in 0..(rc.scale_x[1] - 1)
         /\ rc.sub_pixel_offset_y \in 0..(rc.scale_y[1] - 1)
    ELSE rc.sub_pixel_offset_x = 0 /\ rc.sub_pixel_offset_y = 0

C22_SourceRect == rc.copied => (C22_Inside /\ C22_Offsets)

\* C23: can_draw_entity(e) is true exactly when e has no tag in the exclude set
\* (if an exclude filter is set) and at least one tag in the include set (if
\* an include filter is set); an entity matching both is not drawn and with no
\* filter set every entity is drawn.
C23_TagFilter ==
    /\ can_draw_entity(ms) <=>
           /\ ms.exclude_tags_filter_set => ms.exclude_tags \cap ms.tags = {}
           /\ ms.include_tags_filter_set => ms.include_tags \cap ms.tags # {}
    /\ ms.include_tags_filter_set <=> ms.include_tags # {}
    /\ ms.exclude_tags_filter_set <=> ms.exclude_tags # {}

\* both filters set and the entity carries a tag of each
C23_Witness ==
    /\ ms.include_tags \cap ms.tags # {}
    /\ ms.exclude_tags \cap ms.tags # {}
    /\ ~can_draw_entity(ms)

\* C24: a collision is registered (an entry joins collisions_this_frame, begin or
\* stay is delivered) only between two distinct entities that are both active
\* and both have collisions enabled when the check is made; an entity never
\* collides with itself, and an inactive or collision-disabled entity neither
\* stops a mover nor receives on_collision_begin or on_collision_stay.
C24_Able(e) == ent[e].active /\ ent[e].collisions_enabled

\* the entries a step adds to the sets
C24_Registered ==
    \A e \in Bodies : \A o \in ent'[e].collisions_this_frame \ ent[e].collisions_this_frame :
        o # e /\ C24_Able(e) /\ C24_Able(o)

\* the callbacks a step delivers
C24_Delivered ==
    \A i \in (Len(events) + 1)..Len(events') :
        events'[i][1] \in {"begin", "stay"} =>
            /\ events'[i][2] # events'[i][3]
            /\ C24_Able(events'[i][2]) /\ C24_Able(events'[i][3])

\* a move that ended before its last pixel
C24_Stopped ==
    (lastMove.axis # "none" /\ C1_Travelled < lastMove.move * sign(lastMove.move)) =>
        /\ C24_Able(lastMove.mover)
        /\ \E b \in Bodies \ {lastMove.mover} :
               /\ C24_Able(b) /\ ent[b].solid
               /\ rect_intersects_rect(bbox(ent, b), C1_Along(C1_Travelled + 1))

C25_Path ==
    {lastMove.x + k * sign(lastMove.move) : k \in 1..(lastMove.move * sign(lastMove.move))}

C25_Meets(o) ==
    /\ ent[o].active /\ ent[o].collisions_enabled
    /\ \E p \in C25_Path :
         rect_intersects_rect(bbox(ent, o), Rect(p, lastMove.y, ent[1].width, ent[1].height))

C25_NonSolidPass ==
    (lastMove.axis = "x" /\ ~\E o \in Entities \ {1} : ent[o].solid /\ C25_Meets(o))
        => /\ ent[1].x = lastMove.x + lastMove.move
           /\ ent[1].y = lastMove.y
           /\ \A o \in Entities \ {1} :
                (~ent[o].solid /\ C25_Meets(o))
                    => /\ o \in ent[1].collisions_this_frame
                       /\ 1 \in ent[o].collisions_this_frame

\* a move of two pixels or more across a trigger it does not end on
C25_Witness ==
    /\ lastMove.axis = "x"
    /\ lastMove.move * sign(lastMove.move) >= 2
    /\ ent[1].x = lastMove.x + lastMove.move
    /\ \E o \in Entities \ {1} :
         /\ ~ent[o].solid /\ C25_Meets(o)
         /\ ~rect_intersects_rect(bbox(ent, o), bbox(ent, 1))
         /\ ~rect_intersects_rect(bbox(ent, o),
                                  Rect(lastMove.x, lastMove.y, ent[1].width, ent[1].height))
         /\ o \in ent[1].collisions_this_frame

\* C26: at every camera draw, every render pass registered with the camera
\* (Default, Debug and each extra pass) has a texture of the size of the
\* camera's render texture, whatever the order of viewport, resolution and
\* renderer events and of add_render_pass calls before or after start().
C26_PassTextures ==
    rc.copied => \A p \in DOMAIN rc.pass_texture : rc.pass_texture[p] = rc.render_texture

\* C27: in every frame in which the mouse bookkeeping of an entity runs, at most
\* one of on_mouse_enter / on_mouse_over / on_mouse_exit fires for it: enter
\* exactly when it is hovered this frame and was not the frame before, over
\* when hovered in both, exit when hovered before and not now; an entity that
\* is inactive or has mouse_collisions_enabled false is never reported hovered.
C27_Fired(cb) == \E i \in 1..Len(ms.calls) : ms.calls[i] = cb

C27_HoverProtocol ==
    (pc = "after" /\ ms.posted) =>
        /\ Len(ms.calls) <= 1
        /\ C27_Fired("on_mouse_enter") <=> (ms.hovered /\ ~ms.prev)
        /\ C27_Fired("on_mouse_over") <=> (ms.hovered /\ ms.prev)
        /\ C27_Fired("on_mouse_exit") <=> (~ms.hovered /\ ms.prev)
        /\ ms.mouse_this_frame => (ms.active /\ ms.mouse_collisions_enabled)

\* C28: after any sequence of Level.add_entity, Level.remove_entity, renames and
\* Scene.remove_level, entity.level is L exactly when the entity map of L holds
\* that entity (so an entity is in at most one level); add_entity on an entity
\* that has a level leaves both levels as they were, and after remove_level(L)
\* no entity has level L.
C28_Holds(l, e) == \E i \in 1..Len(lv.entities[l]) : lv.entities[l][i][2] = e

C28_Membership ==
    /\ \A l \in Levels, e \in Entities : lv.level[e] = l <=> C28_Holds(l, e)
    /\ (lv.last.op = "add_entity" /\ lv.last.had # 0) =>
           /\ lv.level[lv.last.entity] = lv.last.had
           /\ lv.last.level # lv.last.had => ~C28_Holds(lv.last.level, lv.last.entity)
    /\ lv.last.op = "remove_level" => \A e \in Entities : lv.level[e] # lv.last.level

\* C29: after every update_list() call the draw list holds each live entity
\* once and no entity that is not live (it is a permutation of the live
\* list), whatever was added, removed and added again; so a draw pass calls
\* draw() once on every live active entity.
C29_AfterUpdateList == pc = "update" /\ idx = 0

C29_DrawListIsLive ==
    /\ C29_AfterUpdateList =>
         \A e \in Entities : Count(el.entity_draw_list, e) = Count(el.entity_list, e)
    /\ (pc = "begin" /\ frame > 0) =>
         \A e \in Entities :
             Count(drawn, e) = IF SeqHas(el.entity_list, e) /\ ent[e].active THEN 1 ELSE 0

\* C30: after every update_list() call, get(name) returns e exactly when e is
\* live and named so; a new entity added in the frame in which a live entity
\* of the same name was queued for removal is found by name after the pass.
C30_Get(name) == IF name \in DOMAIN el.entity_map THEN el.entity_map[name] ELSE 0

C30_NameMap ==
    C29_AfterUpdateList =>
        \A name \in Names, e \in Entities :
            C30_Get(name) = e <=> (SeqHas(el.entity_list, e) /\ ent[e].name = name)

\* C31: every request made through the active setter on a live entity, also
\* from inside a lifecycle callback of a running update_list(), is applied by
\* the end of the next update_list() that starts after it.  A request stays on
\* its queue until a pass clears the queues, so: when a pass is about to
\* clear them, every entity on the activate queue is active and has had its
\* on_activate() in this pass, and every entity on the deactivate queue is
\* inactive and has had its on_deactivate() in this pass.
C31_InPass(cb, e) == \E i \in 1..Len(log) : log[i] = <<cb, e>>

C31_Applied ==
    pc = "finish" =>
        /\ \A e \in Range(el.to_activate) : ent[e].active /\ C31_InPass("on_activate", e)
        /\ \A e \in Range(el.to_deactivate) : ~ent[e].active /\ C31_InPass("on_deactivate", e)

\* C32: for every entity, on_activate() and on_deactivate() strictly alternate,
\* starting with on_activate(): at any moment on_activate() has run as often as
\* on_deactivate() or once more, whatever the active setter, destroy() and
\* the passes were asked, the value an entity already has included.
C32_Alternate ==
    \A e \in Entities : cnt[e]["on_activate"] - cnt[e]["on_deactivate"] \in {0, 1}

\* C35: in every draw pass the active entities are drawn in non-increasing
\* order of the z they have at that moment; a z set during update() of the
\* frame already counts for the draw pass of that frame.
C35_DrawnByZ ==
    pc = "begin" =>
        \A i \in 1..Len(drawn), j \in 1..Len(drawn) :
            i < j => ent[drawn[i]].z >= ent[drawn[j]].z

\* C34: the bookkeeping of the coroutine driver never raises: whatever the
\* start_coroutine, stop_coroutine and update_coroutines calls were,
\* update_coroutines() completes, and once it has completed the stop list is
\* empty and no stopped or finished coroutine is on the running list
C34_Returned == coHist'.complete /\ (~coHist.complete \/ coHist'.pass # coHist.pass)

C34_DriverCompletes ==
    [][/\ pc' # "crashed"
       /\ C34_Returned =>
             /\ co'.stop = <<>>
             /\ Range(co'.coroutines) \cap (coHist'.stopped \cup coHist'.finished) = {}]_vars

\* ==================================================== the activation queues
\* A loaded scene whose entities keep the default lifecycle callbacks: game
\* code assigns `active`, adds and destroys entities between the passes of
\* update_list (Scene.update, scene.py 140-144).
MaxRequests == 4

RequestKinds == {"activate", "deactivate", "add", "destroy"}

NoRequests == [prev |-> [e \in Bodies |-> <<>>], cur |-> [e \in Bodies |-> <<>>]]

\* the calls of one loop of update_list over the list s
Calls(cb, s) == [i \in 1..Len(s) |-> <<cb, s[i]>>]

\* update_list, lines 147-163: the callbacks of a pass over the queues L, in
\* order, when no callback touches the queues
lifecycle_calls(L) ==
    Calls("awake", L.to_add) \o Calls("on_activate", L.to_activate)
        \o Calls("start", L.to_add) \o Calls("on_deactivate", L.to_deactivate)
        \o Calls("end", L.to_remove)

InitQueue ==
    /\ LET n0 == [e \in Bodies |-> NewEntity(BodyNames[e])]
           W == AddFirst(World(NewEntityList, n0), 1, NumBodies)
       IN  /\ el = flag_entity_draw_list_needs_sorting(W.el)
           /\ ent = W.ent
    /\ pc = "begin"
    /\ idx = 0
    /\ inLoad = FALSE
    /\ frame = 0
    /\ nops = 0
    /\ cnt = [e \in Bodies |-> NoCounts]
    /\ log = <<>>
    /\ updated = {}
    /\ drawn = <<>>
    /\ fresh = {}
    /\ requested = {}
    /\ lastOp = NoOp
    /\ deferred = [adds |-> {}, removes |-> {}]
    /\ paused = FALSE
    /\ events = <<>>
    /\ touched = {}
    /\ contact = {}
    /\ pressed = {}
    /\ quiet = TRUE
    /\ lastMove = NoMove
    /\ mv = NoRun
    /\ prevDraw = <<>>
    /\ eng = NoEngine
    /\ sc = <<>>
    /\ CamIdle
    /\ CoIdle
    /\ RenderIdle
    /\ MouseIdle
    /\ LevelIdle
    /\ rq = NoRequests

queueRest == <<idx, inLoad, frame, cnt, updated, drawn, fresh, requested, deferred, paused,
               events, touched, contact, pressed, quiet, lastMove, mv, prevDraw, eng, sc,
               camVars, coVars, rc, ms, lv>>

\* Scene.update, line 143, or the update_list call of Scene.on_load
Queue_update_list ==
    /\ pc = "begin"
    /\ LET W0 == World(el, ent)
           W1 == RemoveQueued(AddQueued([W0 EXCEPT !.el.is_updating = TRUE], 1), 1)
           W == update_list(W0)
       IN  /\ el' = W.el
           /\ ent' = W.ent
           /\ log' = lifecycle_calls(W1.el)
           /\ pc' = IF W.raised THEN "crashed" ELSE "update"
    /\ rq' = [prev |-> rq.cur, cur |-> NoRequests.cur]
    /\ lastOp' = NoOp
    /\ UNCHANGED <<nops, queueRest>>

\* an update() of the frame (entity_list.py 204-207) assigning `active`,
\* adding or destroying an entity
Queue_request ==
    /\ pc = "update"
    /\ nops < MaxRequests
    /\ \E e \in Bodies, op \in RequestKinds :
         /\ op = "destroy" => ent[e].scene
         /\ LET W == CallbackOp(World(el, ent), <<op, e>>)
            IN  /\ el' = W.el
                /\ ent' = W.ent
         /\ rq' = IF op \in {"activate", "deactivate"} /\ ent[e].scene
                  THEN [rq EXCEPT !.cur[e] = Append(@, op = "activate")]
                  ELSE rq
         /\ lastOp' = <<op, e>>
    /\ nops' = nops + 1
    /\ UNCHANGED <<pc, log, queueRest>>

\* Scene.update returns; the engine calls it again in the next frame
Queue_next_frame ==
    /\ pc = "update"
    /\ pc' = "begin"
    /\ lastOp' = NoOp
    /\ UNCHANGED <<el, ent, nops, log, rq, queueRest>>

NextQueue ==
    \/ Queue_update_list
    \/ Queue_request
    \/ Queue_next_frame

SpecQueue == InitQueue /\ [][NextQueue]_vars

\* C33: outside set_active / set_inactive no entity is on both the activate
\* queue and the deactivate queue and none occurs twice on either; when both
\* an activation and a deactivation were requested for an entity between two
\* update_list() calls, the pass applies the last request only: the entity's
\* flag is that of the last request, and of on_activate / on_deactivate only
\* the callback of the last request ran, once
C33_NoDup(s) == \A i \in 1..Len(s), j \in 1..Len(s) : s[i] = s[j] => i = j

C33_Both(s) == \E i \in 1..Len(s), j \in 1..Len(s) : s[i] /\ ~s[j]

C33_Ran(cb, e) == Cardinality({i \in 1..Len(log) : log[i] = <<cb, e>>})

====
